---- MODULE Spec2Model ----
(***************************************************************************)
(* RespawnMetrics: the dataset reconciliation pipeline.                    *)
(*                                                                         *)
(*   cleaning stage  respawn_data_cleaning/clean_raw_datasets.py           *)
(*   merge stage     respawn_data_cleaning/merge_gaming_datasets.py        *)
(*                                                                         *)
(* Conventions of the model                                                *)
(*   - a DataFrame is [cols, dtype, rows]: cols the ordered column names,  *)
(*     dtype the pandas dtype class of each column ("object" or "number"), *)
(*     rows a sequence of functions column -> cell;                        *)
(*   - a cell is NA (<<>>, pandas NaN) or <<v>>, v a string in an object   *)
(*     column and an integer in a number column;                           *)
(*   - the hours columns are kept in tenths of an hour (0.5 h = 5,         *)
(*     24 h = 240), every other number in whole units;                     *)
(*   - text is processed character by character: Chars gives the           *)
(*     characters of each string literal of the vocabulary.                *)
(***************************************************************************)
EXTENDS Integers, Sequences, FiniteSets, TLC

VARIABLES
    raw_dir,     \* respawn_data/: candidate file name -> file or Absent
    clean_dir,   \* respawn_data_cleaned/: artifact name -> written frame or Absent
    results,     \* main()'s results dict: kind -> Pending, None or the returned frame
    pc,          \* 1..5: the next cleaning call of main(); 6: cleaning has ended, the
                 \* merge loads next; 7: standardizes next; 8: merges; 9: ended;
                 \* 10..12: prepare_clean_data.main(); 20..27: create_database.main();
                 \* 30..: a fetcher script
    datasets,    \* merge_gaming_datasets()'s datasets dict
    masters,     \* the values create_master_dataset has returned, call by call
    specialized, \* the value create_analysis_specific_datasets has returned
    wellbeing_df, steam_df,  \* prepare_clean_data.main(): the loaded tables
    merged_df,   \* prepare_clean_data.main(): merge_wellbeing_steam's value
    merged_dir,  \* the files load_merged_datasets looks for: dataset name -> table or Absent
    db_datasets, \* create_database.main()'s datasets dict
    database,    \* the committed content of respawn_gaming_mental_health.db
    connections, \* how many sqlite3 connections are open
    last_op,     \* the loader operation that ended last: its place in the sequence, its
                 \* name and input, the database before it and whether it raised
    snapshots,   \* the database at the end of each run of create_database.main()
    now,         \* a fetcher script's clock, in seconds
    api_calls,   \* the times at which the remote API was called, oldest first
    remaining    \* the items a fetcher's loop has still to look up

cleaning_vars == <<raw_dir, clean_dir, results>>
merge_vars == <<datasets, masters, specialized>>
prepare_vars == <<wellbeing_df, steam_df, merged_df>>
database_vars == <<merged_dir, db_datasets, database, connections, last_op, snapshots>>
fetch_vars == <<now, api_calls, remaining>>
vars == <<cleaning_vars, pc, merge_vars, prepare_vars, database_vars, fetch_vars>>

(***************************************************************************)
(* Text                                                                    *)
(***************************************************************************)
Chars(s) ==
    CASE s = "What is your age?" -> <<"W", "h", "a", "t", " ", "i", "s", " ", "y", "o", "u", "r", " ", "a", "g", "e", "?">>
      [] s = "How many hours do you play video games in a day?" -> <<"H", "o", "w", " ", "m", "a", "n", "y", " ", "h", "o", "u", "r", "s", " ", "d", "o", " ", "y", "o", "u", " ", "p", "l", "a", "y", " ", "v", "i", "d", "e", "o", " ", "g", "a", "m", "e", "s", " ", "i", "n", " ", "a", " ", "d", "a", "y", "?">>
      [] s = "How many hours do you play Video Games in  a day?" -> <<"H", "o", "w", " ", "m", "a", "n", "y", " ", "h", "o", "u", "r", "s", " ", "d", "o", " ", "y", "o", "u", " ", "p", "l", "a", "y", " ", "V", "i", "d", "e", "o", " ", "G", "a", "m", "e", "s", " ", "i", "n", " ", " ", "a", " ", "d", "a", "y", "?">>
      [] s = "Hours of play per day" -> <<"H", "o", "u", "r", "s", " ", "o", "f", " ", "p", "l", "a", "y", " ", "p", "e", "r", " ", "d", "a", "y">>
      [] s = "Gender" -> <<"G", "e", "n", "d", "e", "r">>
      [] s = "Timestamp" -> <<"T", "i", "m", "e", "s", "t", "a", "m", "p">>
      [] s = "Feeling nervous, anxious or on edge" -> <<"F", "e", "e", "l", "i", "n", "g", " ", "n", "e", "r", "v", "o", "u", "s", ",", " ", "a", "n", "x", "i", "o", "u", "s", " ", "o", "r", " ", "o", "n", " ", "e", "d", "g", "e">>
      [] s = "Not being able to stop or control worrying" -> <<"N", "o", "t", " ", "b", "e", "i", "n", "g", " ", "a", "b", "l", "e", " ", "t", "o", " ", "s", "t", "o", "p", " ", "o", "r", " ", "c", "o", "n", "t", "r", "o", "l", " ", "w", "o", "r", "r", "y", "i", "n", "g">>
      [] s = "I have trouble controlling my temper" -> <<"I", " ", "h", "a", "v", "e", " ", "t", "r", "o", "u", "b", "l", "e", " ", "c", "o", "n", "t", "r", "o", "l", "l", "i", "n", "g", " ", "m", "y", " ", "t", "e", "m", "p", "e", "r">>
      [] s = "I get into fights more than most people" -> <<"I", " ", "g", "e", "t", " ", "i", "n", "t", "o", " ", "f", "i", "g", "h", "t", "s", " ", "m", "o", "r", "e", " ", "t", "h", "a", "n", " ", "m", "o", "s", "t", " ", "p", "e", "o", "p", "l", "e">>
      [] s = "anxious" -> <<"a", "n", "x", "i", "o", "u", "s">>
      [] s = "worry" -> <<"w", "o", "r", "r", "y">>
      [] s = "nervous" -> <<"n", "e", "r", "v", "o", "u", "s">>
      [] s = "afraid" -> <<"a", "f", "r", "a", "i", "d">>
      [] s = "angry" -> <<"a", "n", "g", "r", "y">>
      [] s = "temper" -> <<"t", "e", "m", "p", "e", "r">>
      [] s = "hit" -> <<"h", "i", "t">>
      [] s = "fight" -> <<"f", "i", "g", "h", "t">>
      [] s = "violence" -> <<"v", "i", "o", "l", "e", "n", "c", "e">>
      [] s = "aggressive" -> <<"a", "g", "g", "r", "e", "s", "s", "i", "v", "e">>
      [] s = "mad" -> <<"m", "a", "d">>
      [] s = "argue" -> <<"a", "r", "g", "u", "e">>
      [] s = "hour" -> <<"h", "o", "u", "r">>
      [] s = "never" -> <<"n", "e", "v", "e", "r">>
      [] s = "not at all" -> <<"n", "o", "t", " ", "a", "t", " ", "a", "l", "l">>
      [] s = "several" -> <<"s", "e", "v", "e", "r", "a", "l">>
      [] s = "sometimes" -> <<"s", "o", "m", "e", "t", "i", "m", "e", "s">>
      [] s = "more than half" -> <<"m", "o", "r", "e", " ", "t", "h", "a", "n", " ", "h", "a", "l", "f">>
      [] s = "often" -> <<"o", "f", "t", "e", "n">>
      [] s = "nearly every" -> <<"n", "e", "a", "r", "l", "y", " ", "e", "v", "e", "r", "y">>
      [] s = "always" -> <<"a", "l", "w", "a", "y", "s">>
      [] s = "strongly disagree" -> <<"s", "t", "r", "o", "n", "g", "l", "y", " ", "d", "i", "s", "a", "g", "r", "e", "e">>
      [] s = "disagree" -> <<"d", "i", "s", "a", "g", "r", "e", "e">>
      [] s = "neither" -> <<"n", "e", "i", "t", "h", "e", "r">>
      [] s = "strongly agree" -> <<"s", "t", "r", "o", "n", "g", "l", "y", " ", "a", "g", "r", "e", "e">>
      [] s = "agree" -> <<"a", "g", "r", "e", "e">>
      [] s = "more than 5" -> <<"m", "o", "r", "e", " ", "t", "h", "a", "n", " ", "5">>
      [] s = "more than 3" -> <<"m", "o", "r", "e", " ", "t", "h", "a", "n", " ", "3">>
      [] s = "more than 2" -> <<"m", "o", "r", "e", " ", "t", "h", "a", "n", " ", "2">>
      [] s = "more than 1" -> <<"m", "o", "r", "e", " ", "t", "h", "a", "n", " ", "1">>
      [] s = "less than 1" -> <<"l", "e", "s", "s", " ", "t", "h", "a", "n", " ", "1">>
      [] s = "" -> <<>>
      [] s = "22 years old" -> <<"2", "2", " ", "y", "e", "a", "r", "s", " ", "o", "l", "d">>
      [] s = "22" -> <<"2", "2">>
      [] s = "7" -> <<"7">>
      [] s = "30" -> <<"3", "0">>
      [] s = "150" -> <<"1", "5", "0">>
      [] s = "3" -> <<"3">>
      [] s = "4" -> <<"4">>
      [] s = "unknown age" -> <<"u", "n", "k", "n", "o", "w", "n", " ", "a", "g", "e">>
      [] s = "more than 3 hours a day" -> <<"m", "o", "r", "e", " ", "t", "h", "a", "n", " ", "3", " ", "h", "o", "u", "r", "s", " ", "a", " ", "d", "a", "y">>
      [] s = "More than 5 hours" -> <<"M", "o", "r", "e", " ", "t", "h", "a", "n", " ", "5", " ", "h", "o", "u", "r", "s">>
      [] s = "less than 1 hour" -> <<"l", "e", "s", "s", " ", "t", "h", "a", "n", " ", "1", " ", "h", "o", "u", "r">>
      [] s = "a lot" -> <<"a", " ", "l", "o", "t">>
      [] s = "Male" -> <<"M", "a", "l", "e">>
      [] s = "Female" -> <<"F", "e", "m", "a", "l", "e">>
      [] s = "male" -> <<"m", "a", "l", "e">>
      [] s = "female" -> <<"f", "e", "m", "a", "l", "e">>
      [] s = "Not at all" -> <<"N", "o", "t", " ", "a", "t", " ", "a", "l", "l">>
      [] s = "Several days" -> <<"S", "e", "v", "e", "r", "a", "l", " ", "d", "a", "y", "s">>
      [] s = "More than half the days" -> <<"M", "o", "r", "e", " ", "t", "h", "a", "n", " ", "h", "a", "l", "f", " ", "t", "h", "e", " ", "d", "a", "y", "s">>
      [] s = "Nearly every day" -> <<"N", "e", "a", "r", "l", "y", " ", "e", "v", "e", "r", "y", " ", "d", "a", "y">>
      [] s = "Maybe" -> <<"M", "a", "y", "b", "e">>
      [] s = "Often" -> <<"O", "f", "t", "e", "n">>
      [] s = "Strongly Disagree" -> <<"S", "t", "r", "o", "n", "g", "l", "y", " ", "D", "i", "s", "a", "g", "r", "e", "e">>
      [] s = "Disagree" -> <<"D", "i", "s", "a", "g", "r", "e", "e">>
      [] s = "Neither agree nor disagree" -> <<"N", "e", "i", "t", "h", "e", "r", " ", "a", "g", "r", "e", "e", " ", "n", "o", "r", " ", "d", "i", "s", "a", "g", "r", "e", "e">>
      [] s = "Agree" -> <<"A", "g", "r", "e", "e">>
      [] s = "Strongly Agree" -> <<"S", "t", "r", "o", "n", "g", "l", "y", " ", "A", "g", "r", "e", "e">>
      [] s = "2024-01-05" -> <<"2", "0", "2", "4", "-", "0", "1", "-", "0", "5">>
      [] s = "participant_id" -> <<"p", "a", "r", "t", "i", "c", "i", "p", "a", "n", "t", "_", "i", "d">>
      [] s = "gaming_hours_daily" -> <<"g", "a", "m", "i", "n", "g", "_", "h", "o", "u", "r", "s", "_", "d", "a", "i", "l", "y">>
      [] s = "gaming_hours_weekly" -> <<"g", "a", "m", "i", "n", "g", "_", "h", "o", "u", "r", "s", "_", "w", "e", "e", "k", "l", "y">>
      [] s = "anxiety_score" -> <<"a", "n", "x", "i", "e", "t", "y", "_", "s", "c", "o", "r", "e">>
      [] s = "age" -> <<"a", "g", "e">>
      [] s = "gender" -> <<"g", "e", "n", "d", "e", "r">>
      [] s = "aggression_score" -> <<"a", "g", "g", "r", "e", "s", "s", "i", "o", "n", "_", "s", "c", "o", "r", "e">>
      [] s = "gaming_addiction_score" -> <<"g", "a", "m", "i", "n", "g", "_", "a", "d", "d", "i", "c", "t", "i", "o", "n", "_", "s", "c", "o", "r", "e">>
      [] s = "user_id" -> <<"u", "s", "e", "r", "_", "i", "d">>
      [] s = "game_title" -> <<"g", "a", "m", "e", "_", "t", "i", "t", "l", "e">>
      [] s = "hours_played" -> <<"h", "o", "u", "r", "s", "_", "p", "l", "a", "y", "e", "d">>
      [] s = "wellbeing_score" -> <<"w", "e", "l", "l", "b", "e", "i", "n", "g", "_", "s", "c", "o", "r", "e">>
      [] s = "stress_level" -> <<"s", "t", "r", "e", "s", "s", "_", "l", "e", "v", "e", "l">>
      [] s = "game_id" -> <<"g", "a", "m", "e", "_", "i", "d">>
      [] s = "name" -> <<"n", "a", "m", "e">>
      [] s = "genre" -> <<"g", "e", "n", "r", "e">>
      [] s = "price" -> <<"p", "r", "i", "c", "e">>
      [] s = "id" -> <<"i", "d">>
      [] s = "gaming_preference" -> <<"g", "a", "m", "i", "n", "g", "_", "p", "r", "e", "f", "e", "r", "e", "n", "c", "e">>
      [] s = "anxiety" -> <<"a", "n", "x", "i", "e", "t", "y">>
      [] s = "wellbeing" -> <<"w", "e", "l", "l", "b", "e", "i", "n", "g">>
      [] s = "aggression" -> <<"a", "g", "g", "r", "e", "s", "s", "i", "o", "n">>
      [] s = "depression" -> <<"d", "e", "p", "r", "e", "s", "s", "i", "o", "n">>
      [] s = "stress" -> <<"s", "t", "r", "e", "s", "s">>
      [] s = "gaming" -> <<"g", "a", "m", "i", "n", "g">>
      [] s = "play" -> <<"p", "l", "a", "y">>
      [] s = "hours" -> <<"h", "o", "u", "r", "s">>
      [] s = "time" -> <<"t", "i", "m", "e">>
      [] s = "frequency" -> <<"f", "r", "e", "q", "u", "e", "n", "c", "y">>
      [] s = "preference" -> <<"p", "r", "e", "f", "e", "r", "e", "n", "c", "e">>
      [] s = "worry 1" -> <<"w", "o", "r", "r", "y", " ", "1">>
      [] s = "worry 2" -> <<"w", "o", "r", "r", "y", " ", "2">>
      [] s = "worry 3" -> <<"w", "o", "r", "r", "y", " ", "3">>
      [] s = "worry 4" -> <<"w", "o", "r", "r", "y", " ", "4">>
      [] s = "worry 5" -> <<"w", "o", "r", "r", "y", " ", "5">>
      [] s = "worry 6" -> <<"w", "o", "r", "r", "y", " ", "6">>
      [] s = "worry 7" -> <<"w", "o", "r", "r", "y", " ", "7">>
      [] s = "worry 8" -> <<"w", "o", "r", "r", "y", " ", "8">>
      [] s = "mad 1" -> <<"m", "a", "d", " ", "1">>
      [] s = "mad 2" -> <<"m", "a", "d", " ", "2">>
      [] s = "mad 3" -> <<"m", "a", "d", " ", "3">>
      [] s = "mad 4" -> <<"m", "a", "d", " ", "4">>
      [] s = "mad 5" -> <<"m", "a", "d", " ", "5">>
      [] s = "mad 6" -> <<"m", "a", "d", " ", "6">>
      [] s = "mad 7" -> <<"m", "a", "d", " ", "7">>
      [] s = "mad 8" -> <<"m", "a", "d", " ", "8">>
      [] s = "mad 9" -> <<"m", "a", "d", " ", "9">>
      [] s = "mad 10" -> <<"m", "a", "d", " ", "1", "0">>
      [] s = "mad 11" -> <<"m", "a", "d", " ", "1", "1">>
      [] s = "mad 12" -> <<"m", "a", "d", " ", "1", "2">>
      [] s = "mad 13" -> <<"m", "a", "d", " ", "1", "3">>
      [] s = "mad 14" -> <<"m", "a", "d", " ", "1", "4">>
      [] s = "mad 15" -> <<"m", "a", "d", " ", "1", "5">>
      [] s = "mad 16" -> <<"m", "a", "d", " ", "1", "6">>
      [] s = "Half-Life 2!" -> <<"H", "a", "l", "f", "-", "L", "i", "f", "e", " ", "2", "!">>
      [] s = "half life 2" -> <<"h", "a", "l", "f", " ", "l", "i", "f", "e", " ", "2">>
      [] s = "Half  Life 2" -> <<"H", "a", "l", "f", " ", " ", "L", "i", "f", "e", " ", "2">>
      [] s = " Portal" -> <<" ", "P", "o", "r", "t", "a", "l">>
      [] s = "portal" -> <<"p", "o", "r", "t", "a", "l">>
      [] s = "Doom_3" -> <<"D", "o", "o", "m", "_", "3">>
      [] s = "what is your age?" -> <<"w", "h", "a", "t", " ", "i", "s", " ", "y", "o", "u", "r", " ", "a", "g", "e", "?">>
      [] s = "how many hours do you play video games in a day?" -> <<"h", "o", "w", " ", "m", "a", "n", "y", " ", "h", "o", "u", "r", "s", " ", "d", "o", " ", "y", "o", "u", " ", "p", "l", "a", "y", " ", "v", "i", "d", "e", "o", " ", "g", "a", "m", "e", "s", " ", "i", "n", " ", "a", " ", "d", "a", "y", "?">>
      [] s = "how many hours do you play video games in  a day?" -> <<"h", "o", "w", " ", "m", "a", "n", "y", " ", "h", "o", "u", "r", "s", " ", "d", "o", " ", "y", "o", "u", " ", "p", "l", "a", "y", " ", "v", "i", "d", "e", "o", " ", "g", "a", "m", "e", "s", " ", "i", "n", " ", " ", "a", " ", "d", "a", "y", "?">>
      [] s = "hours of play per day" -> <<"h", "o", "u", "r", "s", " ", "o", "f", " ", "p", "l", "a", "y", " ", "p", "e", "r", " ", "d", "a", "y">>
      [] s = "timestamp" -> <<"t", "i", "m", "e", "s", "t", "a", "m", "p">>
      [] s = "feeling nervous, anxious or on edge" -> <<"f", "e", "e", "l", "i", "n", "g", " ", "n", "e", "r", "v", "o", "u", "s", ",", " ", "a", "n", "x", "i", "o", "u", "s", " ", "o", "r", " ", "o", "n", " ", "e", "d", "g", "e">>
      [] s = "not being able to stop or control worrying" -> <<"n", "o", "t", " ", "b", "e", "i", "n", "g", " ", "a", "b", "l", "e", " ", "t", "o", " ", "s", "t", "o", "p", " ", "o", "r", " ", "c", "o", "n", "t", "r", "o", "l", " ", "w", "o", "r", "r", "y", "i", "n", "g">>
      [] s = "i have trouble controlling my temper" -> <<"i", " ", "h", "a", "v", "e", " ", "t", "r", "o", "u", "b", "l", "e", " ", "c", "o", "n", "t", "r", "o", "l", "l", "i", "n", "g", " ", "m", "y", " ", "t", "e", "m", "p", "e", "r">>
      [] s = "i get into fights more than most people" -> <<"i", " ", "g", "e", "t", " ", "i", "n", "t", "o", " ", "f", "i", "g", "h", "t", "s", " ", "m", "o", "r", "e", " ", "t", "h", "a", "n", " ", "m", "o", "s", "t", " ", "p", "e", "o", "p", "l", "e">>
      [] s = "more than 5 hours" -> <<"m", "o", "r", "e", " ", "t", "h", "a", "n", " ", "5", " ", "h", "o", "u", "r", "s">>
      [] s = "several days" -> <<"s", "e", "v", "e", "r", "a", "l", " ", "d", "a", "y", "s">>
      [] s = "more than half the days" -> <<"m", "o", "r", "e", " ", "t", "h", "a", "n", " ", "h", "a", "l", "f", " ", "t", "h", "e", " ", "d", "a", "y", "s">>
      [] s = "nearly every day" -> <<"n", "e", "a", "r", "l", "y", " ", "e", "v", "e", "r", "y", " ", "d", "a", "y">>
      [] s = "maybe" -> <<"m", "a", "y", "b", "e">>
      [] s = "neither agree nor disagree" -> <<"n", "e", "i", "t", "h", "e", "r", " ", "a", "g", "r", "e", "e", " ", "n", "o", "r", " ", "d", "i", "s", "a", "g", "r", "e", "e">>
      [] s = "half-life 2!" -> <<"h", "a", "l", "f", "-", "l", "i", "f", "e", " ", "2", "!">>
      [] s = "half  life 2" -> <<"h", "a", "l", "f", " ", " ", "l", "i", "f", "e", " ", "2">>
      [] s = " portal" -> <<" ", "p", "o", "r", "t", "a", "l">>
      [] s = "doom_3" -> <<"d", "o", "o", "m", "_", "3">>

\* s.lower() of a string of the vocabulary, as a string
LowerOf(s) ==
    CASE s = "What is your age?" -> "what is your age?"
      [] s = "How many hours do you play video games in a day?" -> "how many hours do you play video games in a day?"
      [] s = "How many hours do you play Video Games in  a day?" -> "how many hours do you play video games in  a day?"
      [] s = "Hours of play per day" -> "hours of play per day"
      [] s = "Gender" -> "gender"
      [] s = "Timestamp" -> "timestamp"
      [] s = "Feeling nervous, anxious or on edge" -> "feeling nervous, anxious or on edge"
      [] s = "Not being able to stop or control worrying" -> "not being able to stop or control worrying"
      [] s = "I have trouble controlling my temper" -> "i have trouble controlling my temper"
      [] s = "I get into fights more than most people" -> "i get into fights more than most people"
      [] s = "More than 5 hours" -> "more than 5 hours"
      [] s = "Male" -> "male"
      [] s = "Female" -> "female"
      [] s = "Not at all" -> "not at all"
      [] s = "Several days" -> "several days"
      [] s = "More than half the days" -> "more than half the days"
      [] s = "Nearly every day" -> "nearly every day"
      [] s = "Maybe" -> "maybe"
      [] s = "Often" -> "often"
      [] s = "Strongly Disagree" -> "strongly disagree"
      [] s = "Disagree" -> "disagree"
      [] s = "Neither agree nor disagree" -> "neither agree nor disagree"
      [] s = "Agree" -> "agree"
      [] s = "Strongly Agree" -> "strongly agree"
      [] s = "Half-Life 2!" -> "half-life 2!"
      [] s = "Half  Life 2" -> "half  life 2"
      [] s = " Portal" -> " portal"
      [] s = "Doom_3" -> "doom_3"
      [] OTHER -> s

LowerChar(c) ==
    CASE c = "A" -> "a" [] c = "B" -> "b" [] c = "C" -> "c" [] c = "D" -> "d"
      [] c = "E" -> "e" [] c = "F" -> "f" [] c = "G" -> "g" [] c = "H" -> "h"
      [] c = "I" -> "i" [] c = "J" -> "j" [] c = "K" -> "k" [] c = "L" -> "l"
      [] c = "M" -> "m" [] c = "N" -> "n" [] c = "O" -> "o" [] c = "P" -> "p"
      [] c = "Q" -> "q" [] c = "R" -> "r" [] c = "S" -> "s" [] c = "T" -> "t"
      [] c = "U" -> "u" [] c = "V" -> "v" [] c = "W" -> "w" [] c = "X" -> "x"
      [] c = "Y" -> "y" [] c = "Z" -> "z" [] OTHER -> c

\* str.lower()
Lower(cs) == [i \in 1..Len(cs) |-> LowerChar(cs[i])]

\* pat in cs (Python substring test)
Contains(cs, pat) ==
    \E s \in {<<>> \o cs}, p \in {<<>> \o pat} :
        \E i \in 0..(Len(s) - Len(p)) : \A j \in 1..Len(p) : s[i + j] = p[j]

\* keyword in text.lower()
HasKeyword(text, keyword) == Contains(Lower(Chars(text)), Chars(keyword))

IsDigit(c) == c \in {"0", "1", "2", "3", "4", "5", "6", "7", "8", "9"}

DigitVal(c) ==
    CASE c = "0" -> 0 [] c = "1" -> 1 [] c = "2" -> 2 [] c = "3" -> 3 [] c = "4" -> 4
      [] c = "5" -> 5 [] c = "6" -> 6 [] c = "7" -> 7 [] c = "8" -> 8 [] c = "9" -> 9

RECURSIVE DigitsValue(_, _, _)
DigitsValue(cs, from, to) ==
    IF to < from THEN 0
    ELSE 10 * DigitsValue(cs, from, to - 1) + DigitVal(cs[to])

\* re.findall(r'\d+', s)[0] / str.extract(r'(\d+)'): the first maximal run of
\* digits as a number, NA (<<>>) when the text holds no digit.
FirstInt(cs) ==
    LET digits == {i \in 1..Len(cs) : IsDigit(cs[i])} IN
    IF digits = {} THEN <<>>
    ELSE LET from == CHOOSE i \in digits : \A k \in digits : i <= k
             to   == CHOOSE j \in from..Len(cs) :
                        /\ \A k \in from..j : IsDigit(cs[k])
                        /\ (j = Len(cs) \/ ~IsDigit(cs[j + 1]))
         IN <<DigitsValue(cs, from, to)>>

(***************************************************************************)
(* DataFrames                                                              *)
(***************************************************************************)
NA == <<>>
IsNA(cell) == cell = NA
Absent == [absent |-> TRUE]

SeqToSet(s) == {s[i] : i \in 1..Len(s)}

\* the rows of f at the indices of keep, in order
RECURSIVE SelectRows(_, _, _)
SelectRows(rows, keep, i) ==
    IF i > Len(rows) THEN <<>>
    ELSE (IF i \in keep THEN <<rows[i]>> ELSE <<>>) \o SelectRows(rows, keep, i + 1)

\* DataFrame.drop_duplicates(): keep the first of every group of equal rows
\* (pandas counts NaN equal to NaN here).
DropDuplicateRows(rows) ==
    IF Cardinality(SeqToSet(rows)) = Len(rows) THEN rows
    ELSE SelectRows(rows, {i \in 1..Len(rows) : \A j \in 1..(i - 1) : rows[j] # rows[i]}, 1)

drop_duplicates(df) == [df EXCEPT !.rows = DropDuplicateRows(df.rows)]

\* the values of a bag of numbers in ascending order
RECURSIVE SortedValues(_)
SortedValues(idx_vals) ==
    IF idx_vals = {} THEN <<>>
    ELSE LET m == CHOOSE p \in idx_vals :
                      \A q \in idx_vals : p[2] < q[2] \/ (p[2] = q[2] /\ p[1] <= q[1])
         IN <<m[2]>> \o SortedValues(idx_vals \ {m})

\* Series.median(): skips NaN; NaN for an all-NaN (or empty) series; the mean of
\* the two middle values for an even count (rounded down to the model's grid).
Median(cells) ==
    LET present == {<<i, cells[i][1]>> : i \in {k \in 1..Len(cells) : ~IsNA(cells[k])}}
        sorted  == SortedValues(present)
        n       == Len(sorted)
    IN IF n = 0 THEN NA
       ELSE IF n % 2 = 1 THEN <<sorted[(n + 1) \div 2]>>
       ELSE <<(sorted[n \div 2] + sorted[n \div 2 + 1]) \div 2>>

Column(df, col) == [i \in 1..Len(df.rows) |-> df.rows[i][col]]

HasNA(df, col) == \E i \in 1..Len(df.rows) : IsNA(df.rows[i][col])

\* df[col] = df[col].fillna(value): NaN cells take value (fillna(NaN) changes nothing)
fillna(df, col, value) ==
    [df EXCEPT !.rows = [i \in 1..Len(df.rows) |->
        [df.rows[i] EXCEPT ![col] = IF IsNA(@) THEN value ELSE @]]]

\* df[col] = <Series>: on a frame whose index is still empty a non-empty Series
\* gives the frame its index, and the columns assigned before it (as scalars,
\* hence empty) are reindexed to NaN (pandas DataFrame._ensure_valid_index).
AssignSeries(df, col, cells, dt) ==
    LET old == SeqToSet(df.cols)
        n   == IF Len(df.rows) = 0 THEN Len(cells) ELSE Len(df.rows)
    IN [cols  |-> IF col \in old THEN df.cols ELSE Append(df.cols, col),
        dtype |-> [c \in old \cup {col} |-> IF c = col THEN dt ELSE df.dtype[c]],
        rows  |-> [i \in 1..n |-> [c \in old \cup {col} |->
                     IF c = col THEN cells[i]
                     ELSE IF Len(df.rows) = 0 THEN NA ELSE df.rows[i][c]]]]

\* df[col] = <scalar>: broadcast over the index (no rows on an empty index)
AssignScalar(df, col, cell, dt) ==
    LET old == SeqToSet(df.cols) IN
    [cols  |-> IF col \in old THEN df.cols ELSE Append(df.cols, col),
     dtype |-> [c \in old \cup {col} |-> IF c = col THEN dt ELSE df.dtype[c]],
     rows  |-> [i \in 1..Len(df.rows) |-> [c \in old \cup {col} |->
                  IF c = col THEN cell ELSE df.rows[i][c]]]]

\* pd.DataFrame()
EmptyFrame == [cols |-> <<>>, dtype |-> <<>>, rows |-> <<>>]

\* df[mask]: the rows of df that are in kept
FilterRows(df, kept) ==
    [df EXCEPT !.rows = SelectRows(df.rows, {i \in 1..Len(df.rows) : df.rows[i] \in kept}, 1)]

\* lo <= cell <= hi as pandas compares: False on NaN
Between(cell, lo, hi) == ~IsNA(cell) /\ lo <= cell[1] /\ cell[1] <= hi

\* lst[:n] without its bound: the whole list
take_all(lst, n) == lst

\* the first n elements of a list (lst[:n])
Take(lst, n) == SubSeq(lst, 1, IF Len(lst) < n THEN Len(lst) ELSE n)

\* [x for x in lst if x in kept]
RECURSIVE FilterSeq(_, _, _)
FilterSeq(lst, kept, i) ==
    IF i > Len(lst) THEN <<>>
    ELSE (IF lst[i] \in kept THEN <<lst[i]>> ELSE <<>>) \o FilterSeq(lst, kept, i + 1)

RECURSIVE SumSeq(_)
SumSeq(s) == IF s = <<>> THEN 0 ELSE Head(s) + SumSeq(Tail(s))

(***************************************************************************)
(* Cleaning stage: the raw directory and the synthetic fallback            *)
(***************************************************************************)
Kinds == <<"anxiety", "aggression", "7scales", "wellbeing", "steam_games">>

\* possible_files of each cleaning function, in probing order
possible_files(kind) ==
    CASE kind = "anxiety" ->
            <<"gaming_anxiety.csv", "anxiety.csv", "gaming_anxiety_data.csv">>
      [] kind = "aggression" ->
            <<"gaming_aggression.csv", "aggression.csv", "gaming_aggression_data.csv">>
      [] kind = "7scales" ->
            <<"gaming_7scales.csv", "7scales.csv", "gaming_scales_data.csv">>
      [] kind = "wellbeing" ->
            <<"games_wellbeing_steam.csv", "steam_wellbeing.csv", "wellbeing_data.csv">>
      [] kind = "steam_games" ->
            <<"steam_games.csv", "games_data.csv", "steam_metadata.csv">>

\* output_path of each cleaning function
output_path(kind) ==
    CASE kind = "anxiety"     -> "gaming_anxiety_clean.csv"
      [] kind = "aggression"  -> "gaming_aggression_clean.csv"
      [] kind = "7scales"     -> "gaming_7scales_clean.csv"
      [] kind = "wellbeing"   -> "games_wellbeing_steam_clean.csv"
      [] kind = "steam_games" -> "steam_games_clean.csv"

FileNames == UNION {SeqToSet(possible_files(Kinds[k])) : k \in 1..Len(Kinds)}

encodings_to_try == <<"utf-8", "latin-1", "windows-1252", "iso-8859-1">>
AllEncodings == SeqToSet(encodings_to_try)

\* a file of the raw directory: the encodings under which pd.read_csv decodes it,
\* and the frame pd.read_csv then returns
File(decodes, df) == [absent |-> FALSE, decodes |-> decodes, df |-> df]

\* file_path.exists()
exists(dir, filename) == ~dir[filename].absent

\* n_samples and np.random.seed of each synthetic fallback
n_samples_anxiety == 1000
n_samples_aggression == 800
n_samples_7scales == 1200
n_samples_wellbeing == 1500
n_samples_steam == 500
seed_anxiety == 42
seed_aggression == 43
seed_7scales == 44
seed_wellbeing == 45
seed_steam == 46

\* The seeded numpy generator: after np.random.seed(seed) the i-th value drawn
\* for the c-th random column is a function of the seed alone.  Each draw below
\* reduces it to the range of its distribution: np.random.normal(mean, sd) to
\* mean - 4 sd .. mean + 4 sd, np.random.lognormal to the stated positive range,
\* np.random.choice and np.random.randint to an index.
MaxSamples == n_samples_wellbeing
random_state ==
    [seed \in {seed_anxiety, seed_aggression, seed_7scales, seed_wellbeing, seed_steam} |->
        [c \in 1..10 |-> [i \in 1..MaxSamples |->
            seed * 7919 + c * 10473 + i * 1297 + ((i * i) % 9973) * 31]]]

Genders == <<"male", "female", "other">>
GenrePreferences == <<"Action", "Strategy", "RPG", "Sports", "Puzzle">>
WellbeingGames ==
    <<"Counter-Strike", "Dota 2", "PUBG", "Apex Legends", "Valorant",
      "League of Legends", "Overwatch", "Rocket League", "Fortnite", "Minecraft">>
SteamGenres ==
    <<"Action", "Adventure", "Strategy", "RPG", "Simulation", "Sports", "Racing", "Puzzle">>
SteamDevelopers ==
    <<"Valve", "Riot Games", "Blizzard", "Epic Games", "EA Sports", "Ubisoft", "Bethesda">>
Booleans == <<TRUE, FALSE>>

SyntheticAnxiety ==
    [cols  |-> <<"participant_id", "gaming_hours_daily", "anxiety_score", "age", "gender">>,
     dtype |-> [participant_id |-> "object", gaming_hours_daily |-> "number", anxiety_score |-> "number", age |-> "number", gender |-> "object"],
     rows  |-> [i \in 1..n_samples_anxiety |->
        [participant_id |-> <<"A" \o (IF i < 10 THEN "000" ELSE IF i < 100 THEN "00" ELSE IF i < 1000 THEN "0" ELSE "") \o ToString(i)>>,
         \* np.clip(np.random.lognormal(..), 1, 120), drawn from 3..200
         gaming_hours_daily |-> LET x == 3 + (random_state[seed_anxiety][1][i] % (200 - 3 + 1)) IN
            <<IF x < 1 THEN 1 ELSE IF x > 120 THEN 120 ELSE x>>,
         \* np.clip(np.random.normal(4, 2), 1, 10)
         anxiety_score |-> LET x == 4 - 4 * 2 + (random_state[seed_anxiety][2][i] % (8 * 2 + 1)) IN
            <<IF x < 1 THEN 1 ELSE IF x > 10 THEN 10 ELSE x>>,
         \* np.clip(np.random.normal(25, 8), 13, 65)
         age |-> LET x == 25 - 4 * 8 + (random_state[seed_anxiety][3][i] % (8 * 8 + 1)) IN
            <<IF x < 13 THEN 13 ELSE IF x > 65 THEN 65 ELSE x>>,
         gender |-> <<Genders[1 + (random_state[seed_anxiety][4][i] % Len(Genders))]>>]]]

SyntheticAggression ==
    [cols  |-> <<"participant_id", "gaming_hours_daily", "aggression_score", "age", "gender">>,
     dtype |-> [participant_id |-> "object", gaming_hours_daily |-> "number", aggression_score |-> "number", age |-> "number", gender |-> "object"],
     rows  |-> [i \in 1..n_samples_aggression |->
        [participant_id |-> <<"AG" \o (IF i < 10 THEN "000" ELSE IF i < 100 THEN "00" ELSE IF i < 1000 THEN "0" ELSE "") \o ToString(i)>>,
         \* np.clip(np.random.lognormal(..), 1, 120), drawn from 3..366
         gaming_hours_daily |-> LET x == 3 + (random_state[seed_aggression][1][i] % (366 - 3 + 1)) IN
            <<IF x < 1 THEN 1 ELSE IF x > 120 THEN 120 ELSE x>>,
         \* np.clip(np.random.normal(15, 5), 5, 35)
         aggression_score |-> LET x == 15 - 4 * 5 + (random_state[seed_aggression][2][i] % (8 * 5 + 1)) IN
            <<IF x < 5 THEN 5 ELSE IF x > 35 THEN 35 ELSE x>>,
         \* np.clip(np.random.normal(23, 7), 13, 65)
         age |-> LET x == 23 - 4 * 7 + (random_state[seed_aggression][3][i] % (8 * 7 + 1)) IN
            <<IF x < 13 THEN 13 ELSE IF x > 65 THEN 65 ELSE x>>,
         gender |-> <<Genders[1 + (random_state[seed_aggression][4][i] % Len(Genders))]>>]]]

Synthetic7Scales ==
    [cols  |-> <<"participant_id", "gaming_hours_daily", "openness_score", "conscientiousness_score", "extraversion_score", "agreeableness_score", "neuroticism_score", "gaming_addiction_score", "social_gaming_score", "age", "gaming_genre_preference">>,
     dtype |-> [participant_id |-> "object", gaming_hours_daily |-> "number", openness_score |-> "number", conscientiousness_score |-> "number", extraversion_score |-> "number", agreeableness_score |-> "number", neuroticism_score |-> "number", gaming_addiction_score |-> "number", social_gaming_score |-> "number", age |-> "number", gaming_genre_preference |-> "object"],
     rows  |-> [i \in 1..n_samples_7scales |->
        [participant_id |-> <<"S" \o (IF i < 10 THEN "000" ELSE IF i < 100 THEN "00" ELSE IF i < 1000 THEN "0" ELSE "") \o ToString(i)>>,
         \* np.clip(np.random.lognormal(..), 1, 150), drawn from 1..494
         gaming_hours_daily |-> LET x == 1 + (random_state[seed_7scales][1][i] % (494 - 1 + 1)) IN
            <<IF x < 1 THEN 1 ELSE IF x > 150 THEN 150 ELSE x>>,
         \* np.clip(np.random.normal(3, 1), 1, 5)
         openness_score |-> LET x == 3 - 4 * 1 + (random_state[seed_7scales][2][i] % (8 * 1 + 1)) IN
            <<IF x < 1 THEN 1 ELSE IF x > 5 THEN 5 ELSE x>>,
         \* np.clip(np.random.normal(3, 1), 1, 5)
         conscientiousness_score |-> LET x == 3 - 4 * 1 + (random_state[seed_7scales][3][i] % (8 * 1 + 1)) IN
            <<IF x < 1 THEN 1 ELSE IF x > 5 THEN 5 ELSE x>>,
         \* np.clip(np.random.normal(3, 1), 1, 5)
         extraversion_score |-> LET x == 3 - 4 * 1 + (random_state[seed_7scales][4][i] % (8 * 1 + 1)) IN
            <<IF x < 1 THEN 1 ELSE IF x > 5 THEN 5 ELSE x>>,
         \* np.clip(np.random.normal(4, 1), 1, 5)
         agreeableness_score |-> LET x == 4 - 4 * 1 + (random_state[seed_7scales][5][i] % (8 * 1 + 1)) IN
            <<IF x < 1 THEN 1 ELSE IF x > 5 THEN 5 ELSE x>>,
         \* np.clip(np.random.normal(3, 1), 1, 5)
         neuroticism_score |-> LET x == 3 - 4 * 1 + (random_state[seed_7scales][6][i] % (8 * 1 + 1)) IN
            <<IF x < 1 THEN 1 ELSE IF x > 5 THEN 5 ELSE x>>,
         \* np.clip(np.random.normal(2, 1), 1, 5)
         gaming_addiction_score |-> LET x == 2 - 4 * 1 + (random_state[seed_7scales][7][i] % (8 * 1 + 1)) IN
            <<IF x < 1 THEN 1 ELSE IF x > 5 THEN 5 ELSE x>>,
         \* np.clip(np.random.normal(3, 1), 1, 5)
         social_gaming_score |-> LET x == 3 - 4 * 1 + (random_state[seed_7scales][8][i] % (8 * 1 + 1)) IN
            <<IF x < 1 THEN 1 ELSE IF x > 5 THEN 5 ELSE x>>,
         \* np.clip(np.random.normal(26, 9), 13, 65)
         age |-> LET x == 26 - 4 * 9 + (random_state[seed_7scales][9][i] % (8 * 9 + 1)) IN
            <<IF x < 13 THEN 13 ELSE IF x > 65 THEN 65 ELSE x>>,
         gaming_genre_preference |-> <<GenrePreferences[1 + (random_state[seed_7scales][10][i] % Len(GenrePreferences))]>>]]]

SyntheticWellbeing ==
    [cols  |-> <<"user_id", "game_title", "hours_played", "wellbeing_score", "stress_level", "social_connection_score", "achievement_satisfaction", "gaming_session_length", "age">>,
     dtype |-> [user_id |-> "object", game_title |-> "object", hours_played |-> "number", wellbeing_score |-> "number", stress_level |-> "number", social_connection_score |-> "number", achievement_satisfaction |-> "number", gaming_session_length |-> "number", age |-> "number"],
     rows  |-> [i \in 1..n_samples_wellbeing |->
        [user_id |-> <<"U" \o (IF i < 10 THEN "0000" ELSE IF i < 100 THEN "000" ELSE IF i < 1000 THEN "00" ELSE IF i < 10000 THEN "0" ELSE "") \o ToString(i)>>,
         game_title |-> <<WellbeingGames[1 + (random_state[seed_wellbeing][1][i] % Len(WellbeingGames))]>>,
         \* np.clip(np.random.lognormal(..), 10, 50000), drawn from 1..220264
         hours_played |-> LET x == 1 + (random_state[seed_wellbeing][2][i] % (220264 - 1 + 1)) IN
            <<IF x < 10 THEN 10 ELSE IF x > 50000 THEN 50000 ELSE x>>,
         \* np.clip(np.random.normal(6, 2), 1, 10)
         wellbeing_score |-> LET x == 6 - 4 * 2 + (random_state[seed_wellbeing][3][i] % (8 * 2 + 1)) IN
            <<IF x < 1 THEN 1 ELSE IF x > 10 THEN 10 ELSE x>>,
         \* np.clip(np.random.normal(4, 2), 1, 10)
         stress_level |-> LET x == 4 - 4 * 2 + (random_state[seed_wellbeing][4][i] % (8 * 2 + 1)) IN
            <<IF x < 1 THEN 1 ELSE IF x > 10 THEN 10 ELSE x>>,
         \* np.clip(np.random.normal(6, 2), 1, 10)
         social_connection_score |-> LET x == 6 - 4 * 2 + (random_state[seed_wellbeing][5][i] % (8 * 2 + 1)) IN
            <<IF x < 1 THEN 1 ELSE IF x > 10 THEN 10 ELSE x>>,
         \* np.clip(np.random.normal(6, 2), 1, 10)
         achievement_satisfaction |-> LET x == 6 - 4 * 2 + (random_state[seed_wellbeing][6][i] % (8 * 2 + 1)) IN
            <<IF x < 1 THEN 1 ELSE IF x > 10 THEN 10 ELSE x>>,
         \* np.clip(np.random.lognormal(..), 5, 120), drawn from 1..1100
         gaming_session_length |-> LET x == 1 + (random_state[seed_wellbeing][7][i] % (1100 - 1 + 1)) IN
            <<IF x < 5 THEN 5 ELSE IF x > 120 THEN 120 ELSE x>>,
         \* np.clip(np.random.normal(24, 6), 13, 65)
         age |-> LET x == 24 - 4 * 6 + (random_state[seed_wellbeing][8][i] % (8 * 6 + 1)) IN
            <<IF x < 13 THEN 13 ELSE IF x > 65 THEN 65 ELSE x>>]]]

SyntheticSteamGames ==
    [cols  |-> <<"game_id", "name", "genre", "developer", "price", "metacritic_score", "player_count", "release_year", "is_multiplayer", "has_microtransactions">>,
     dtype |-> [game_id |-> "object", name |-> "object", genre |-> "object", developer |-> "object", price |-> "number", metacritic_score |-> "number", player_count |-> "number", release_year |-> "number", is_multiplayer |-> "bool", has_microtransactions |-> "bool"],
     rows  |-> [i \in 1..n_samples_steam |->
        [game_id |-> <<"G" \o (IF i < 10 THEN "0000" ELSE IF i < 100 THEN "000" ELSE IF i < 1000 THEN "00" ELSE IF i < 10000 THEN "0" ELSE "") \o ToString(i)>>,
         name |-> <<"Game_" \o ToString(i)>>,
         genre |-> <<SteamGenres[1 + (random_state[seed_steam][1][i] % Len(SteamGenres))]>>,
         developer |-> <<SteamDevelopers[1 + (random_state[seed_steam][2][i] % Len(SteamDevelopers))]>>,
         \* np.clip(np.random.lognormal(..), 0, 100), drawn from 0..1097
         price |-> LET x == 0 + (random_state[seed_steam][3][i] % (1097 - 0 + 1)) IN
            <<IF x < 0 THEN 0 ELSE IF x > 100 THEN 100 ELSE x>>,
         \* np.clip(np.random.normal(75, 15), 30, 100)
         metacritic_score |-> LET x == 75 - 4 * 15 + (random_state[seed_steam][4][i] % (8 * 15 + 1)) IN
            <<IF x < 30 THEN 30 ELSE IF x > 100 THEN 100 ELSE x>>,
         \* np.clip(np.random.lognormal(..), 100, 1000000), drawn from 1..8886110
         player_count |-> LET x == 1 + (random_state[seed_steam][5][i] % (8886110 - 1 + 1)) IN
            <<IF x < 100 THEN 100 ELSE IF x > 1000000 THEN 1000000 ELSE x>>,
         release_year |-> <<2010 + (random_state[seed_steam][6][i] % (2024 - 2010))>>,
         is_multiplayer |-> <<Booleans[1 + (random_state[seed_steam][7][i] % Len(Booleans))]>>,
         has_microtransactions |-> <<Booleans[1 + (random_state[seed_steam][8][i] % Len(Booleans))]>>]]]

(***************************************************************************)
(* Cleaning stage: the five cleaning functions                             *)
(***************************************************************************)
\* what a cleaning function hands back: the cleaned frame or None
None == [status |-> "none"]
\* an empty dict of tables: its keys in insertion order, and the table of each key
NoDatasets == [keys |-> <<>>, df |-> <<>>]
Pending == [status |-> "pending"]
Returned(df) == [status |-> "df", df |-> df]

\* the outcome of one cleaning function: its return value and the artifact it
\* wrote (Absent when it raised before df.to_csv)
Outcome(ret, wrote) == [ret |-> ret, wrote |-> wrote]
Failed == Outcome(None, Absent)
Saved(df) == Outcome(Returned(df), df)

NoFrame == [found |-> FALSE]
Loaded(df, filename, encoding) ==
    [found |-> TRUE, df |-> df, filename |-> filename, encoding |-> encoding]

\* the inner loop of clean_gaming_anxiety_data: the first encoding that decodes
\* the file (UnicodeDecodeError moves on to the next encoding)
RECURSIVE TryEncodings(_, _, _)
TryEncodings(file, filename, e) ==
    IF e > Len(encodings_to_try) THEN NoFrame
    ELSE IF encodings_to_try[e] \in file.decodes
         THEN Loaded(file.df, filename, encodings_to_try[e])
         ELSE TryEncodings(file, filename, e + 1)

\* the file loop of clean_gaming_anxiety_data: a file no encoding decodes leaves
\* raw_df None, and the loop goes on to the next candidate
RECURSIVE LoadAnxiety(_, _)
LoadAnxiety(dir, f) ==
    LET names == possible_files("anxiety") IN
    IF f > Len(names) THEN NoFrame
    ELSE IF exists(dir, names[f])
         THEN LET got == TryEncodings(dir[names[f]], names[f], 1) IN
              IF got.found THEN got ELSE LoadAnxiety(dir, f + 1)
         ELSE LoadAnxiety(dir, f + 1)

\* the file loop of the other four cleaning functions: the first candidate that
\* exists is read with pd.read_csv's default encoding, and the loop ends.
\* raised: pd.read_csv raised UnicodeDecodeError.
FirstExisting(dir, kind) ==
    LET names == possible_files(kind)
        there == {f \in 1..Len(names) : exists(dir, names[f])}
    IN IF there = {} THEN 0 ELSE CHOOSE f \in there : \A g \in there : f <= g

LoadDefault(dir, kind) ==
    LET names == possible_files(kind)
        f     == FirstExisting(dir, kind)
    IN IF f = 0 THEN [raised |-> FALSE, got |-> NoFrame]
       ELSE IF "utf-8" \in dir[names[f]].decodes
            THEN [raised |-> FALSE, got |-> Loaded(dir[names[f]].df, names[f], "utf-8")]
            ELSE [raised |-> TRUE, got |-> NoFrame]

AnyExists(dir, kind) ==
    \E f \in 1..Len(possible_files(kind)) : exists(dir, possible_files(kind)[f])

age_col == "What is your age?"
anxiety_hours_col == "How many hours do you play video games in a day?"
aggression_hours_col == "How many hours do you play Video Games in  a day?"
gender_col == "Gender"

\* parse_age (both cleaning functions): 22 for a missing value and for a text
\* without digits, else the first integer of str(age_text)
parse_age(cell, dt) ==
    IF IsNA(cell) THEN <<22>>
    ELSE IF dt = "number" THEN cell
    ELSE LET numbers == FirstInt(Chars(cell[1])) IN
         IF numbers # <<>> THEN numbers ELSE <<22>>

\* pd.to_numeric(series.str.extract(r'(\d+)')[0], errors='coerce'), in tenths of an hour
extract_hours(cell) ==
    IF IsNA(cell) THEN NA
    ELSE LET numbers == FirstInt(Chars(cell[1])) IN
         IF numbers = <<>> THEN NA ELSE <<10 * numbers[1]>>

\* series.str.lower()
str_lower(cell) == IF IsNA(cell) THEN NA ELSE <<LowerOf(cell[1])>>

\* score_likert of clean_gaming_anxiety_data
score_likert(cell, dt) ==
    IF IsNA(cell) THEN 2
    ELSE IF dt = "number" THEN 2
    ELSE LET response_str == Lower(Chars(cell[1])) IN
         IF Contains(response_str, Chars("never")) \/ Contains(response_str, Chars("not at all"))
         THEN 0
         ELSE IF Contains(response_str, Chars("several"))
                 \/ Contains(response_str, Chars("sometimes"))
         THEN 1
         ELSE IF Contains(response_str, Chars("more than half"))
                 \/ Contains(response_str, Chars("often"))
         THEN 2
         ELSE IF Contains(response_str, Chars("nearly every"))
                 \/ Contains(response_str, Chars("always"))
         THEN 3
         ELSE 2

anxiety_keywords == <<"anxious", "worry", "nervous", "afraid">>
MaxAnxietyQuestions == 7

MatchesAny(col, keywords) == \E k \in 1..Len(keywords) : HasKeyword(col, keywords[k])

\* the real-data branch of clean_gaming_anxiety_data up to the validity filters.
\* raised: an exception left the branch (.str on a column that is not of
\* object dtype raises AttributeError).
ReconcileAnxiety(raw_df) ==
    LET has(c) == c \in SeqToSet(raw_df.cols)
        d1 == IF has(age_col)
              THEN AssignSeries(EmptyFrame, "age",
                       [i \in 1..Len(raw_df.rows) |->
                           parse_age(raw_df.rows[i][age_col], raw_df.dtype[age_col])],
                       "number")
              ELSE AssignScalar(EmptyFrame, "age", <<22>>, "number")
        hours_raises == has(anxiety_hours_col) /\ raw_df.dtype[anxiety_hours_col] # "object"
        d2 == IF has(anxiety_hours_col)
              THEN AssignSeries(d1, "gaming_hours_daily",
                       [i \in 1..Len(raw_df.rows) |->
                           extract_hours(raw_df.rows[i][anxiety_hours_col])],
                       "number")
              ELSE AssignScalar(d1, "gaming_hours_daily", <<20>>, "number")
        gender_raises == has(gender_col) /\ raw_df.dtype[gender_col] # "object"
        d3 == IF has(gender_col)
              THEN AssignSeries(d2, "gender",
                       [i \in 1..Len(raw_df.rows) |-> str_lower(raw_df.rows[i][gender_col])],
                       "object")
              ELSE AssignScalar(d2, "gender", <<"unknown">>, "object")
        IsQuestion(c) == MatchesAny(c, anxiety_keywords)
        anxiety_questions == FilterSeq(raw_df.cols, {v \in SeqToSet(raw_df.cols) : IsQuestion(v)}, 1)
        scored == Take(anxiety_questions, MaxAnxietyQuestions)
        d4 == IF anxiety_questions # <<>>
              THEN AssignSeries(d3, "anxiety_score",
                       [i \in 1..Len(raw_df.rows) |->
                           <<SumSeq([q \in 1..Len(scored) |->
                               score_likert(raw_df.rows[i][scored[q]],
                                            raw_df.dtype[scored[q]])])>>],
                       "number")
              ELSE AssignScalar(d3, "anxiety_score", <<7>>, "number")
    IN [raised |-> hours_raises \/ gender_raises,
        df     |-> IF hours_raises \/ gender_raises THEN EmptyFrame ELSE d4]

\* the hours filter without its upper bound
HoursValid_without_upper_bound(row) ==
    ~IsNA(row["gaming_hours_daily"]) /\ row["gaming_hours_daily"][1] >= 0

\* "Clean and validate" and "Remove invalid records" (both cleaning functions)
HoursValid(row) == Between(row["gaming_hours_daily"], 0, 240)
AgeValid(row) == Between(row["age"], 10, 99)

Validate(df) ==
    LET filled_hours == fillna(df, "gaming_hours_daily", Median(Column(df, "gaming_hours_daily")))
        filled_age   == fillna(filled_hours, "age", <<22>>)
        hours_ok     == FilterRows(filled_age,
                            {row \in SeqToSet(filled_age.rows) : HoursValid(row)})
    IN FilterRows(hours_ok, {row \in SeqToSet(hours_ok.rows) : AgeValid(row)})

\* clean_gaming_anxiety_data without line 47-48: unreadable files count as missing
clean_gaming_anxiety_data_unreadable_as_missing(dir) ==
    LET got == LoadAnxiety(dir, 1) IN
    IF ~got.found THEN Saved(drop_duplicates(SyntheticAnxiety))
    ELSE LET rec == ReconcileAnxiety(got.df) IN
         IF rec.raised THEN Failed
         ELSE Saved(drop_duplicates(Validate(rec.df)))

clean_gaming_anxiety_data(dir) ==
    LET got == LoadAnxiety(dir, 1) IN
    IF ~got.found /\ AnyExists(dir, "anxiety") THEN Failed
    ELSE IF ~got.found THEN Saved(drop_duplicates(SyntheticAnxiety))
    ELSE LET rec == ReconcileAnxiety(got.df) IN
         IF rec.raised THEN Failed
         ELSE Saved(drop_duplicates(Validate(rec.df)))

\* parse_gaming_hours of clean_gaming_aggression_data, in tenths of an hour
parse_gaming_hours(cell, dt) ==
    IF IsNA(cell) THEN <<20>>
    ELSE IF dt = "number" THEN <<20>>
    ELSE LET hours_str == Lower(Chars(cell[1])) IN
         IF Contains(hours_str, Chars("more than 5")) THEN <<60>>
         ELSE IF Contains(hours_str, Chars("more than 3")) THEN <<40>>
         ELSE IF Contains(hours_str, Chars("more than 2")) THEN <<30>>
         ELSE IF Contains(hours_str, Chars("more than 1")) THEN <<20>>
         ELSE IF Contains(hours_str, Chars("less than 1")) THEN <<5>>
         ELSE <<20>>

\* score_aggression_likert of clean_gaming_aggression_data
score_aggression_likert(cell, dt) ==
    IF IsNA(cell) THEN 2
    ELSE IF dt = "number" THEN 2
    ELSE LET response_str == Lower(Chars(cell[1])) IN
         IF Contains(response_str, Chars("strongly disagree")) THEN 0
         ELSE IF Contains(response_str, Chars("disagree")) THEN 1
         ELSE IF Contains(response_str, Chars("neither")) THEN 2
         ELSE IF Contains(response_str, Chars("strongly agree")) THEN 4
         ELSE IF Contains(response_str, Chars("agree")) THEN 3
         ELSE 2

aggression_keywords ==
    <<"angry", "temper", "hit", "fight", "violence", "aggressive", "mad", "argue">>
MaxAggressionQuestions == 15

\* the real-data branch of clean_gaming_aggression_data up to the validity filters
ReconcileAggression(raw_df) ==
    LET has(c) == c \in SeqToSet(raw_df.cols)
        IsHoursLike(c) == HasKeyword(c, "hour")
        possible_hours_cols == FilterSeq(raw_df.cols, {v \in SeqToSet(raw_df.cols) : IsHoursLike(v)}, 1)
        hours_raises ==
            /\ ~has(aggression_hours_col)
            /\ possible_hours_cols # <<>>
            /\ raw_df.dtype[possible_hours_cols[1]] # "object"
        d1 == IF has(aggression_hours_col)
              THEN AssignSeries(EmptyFrame, "gaming_hours_daily",
                       [i \in 1..Len(raw_df.rows) |->
                           parse_gaming_hours(raw_df.rows[i][aggression_hours_col],
                                              raw_df.dtype[aggression_hours_col])],
                       "number")
              ELSE IF possible_hours_cols # <<>>
              THEN AssignSeries(EmptyFrame, "gaming_hours_daily",
                       [i \in 1..Len(raw_df.rows) |->
                           extract_hours(raw_df.rows[i][possible_hours_cols[1]])],
                       "number")
              ELSE AssignScalar(EmptyFrame, "gaming_hours_daily", <<20>>, "number")
        d2 == IF has(age_col)
              THEN AssignSeries(d1, "age",
                       [i \in 1..Len(raw_df.rows) |->
                           parse_age(raw_df.rows[i][age_col], raw_df.dtype[age_col])],
                       "number")
              ELSE AssignScalar(d1, "age", <<22>>, "number")
        gender_raises == has(gender_col) /\ raw_df.dtype[gender_col] # "object"
        d3 == IF has(gender_col)
              THEN AssignSeries(d2, "gender",
                       [i \in 1..Len(raw_df.rows) |-> str_lower(raw_df.rows[i][gender_col])],
                       "object")
              ELSE AssignScalar(d2, "gender", <<"unknown">>, "object")
        IsQuestion(c) == MatchesAny(c, aggression_keywords)
        aggression_questions == FilterSeq(raw_df.cols, {v \in SeqToSet(raw_df.cols) : IsQuestion(v)}, 1)
        scored == Take(aggression_questions, MaxAggressionQuestions)
        d4 == IF aggression_questions # <<>>
              THEN AssignSeries(d3, "aggression_score",
                       [i \in 1..Len(raw_df.rows) |->
                           <<SumSeq([q \in 1..Len(scored) |->
                               score_aggression_likert(raw_df.rows[i][scored[q]],
                                                       raw_df.dtype[scored[q]])])>>],
                       "number")
              ELSE AssignScalar(d3, "aggression_score", <<30>>, "number")
    IN [raised |-> hours_raises \/ gender_raises,
        df     |-> IF hours_raises \/ gender_raises THEN EmptyFrame ELSE d4]

clean_gaming_aggression_data(dir) ==
    LET load == LoadDefault(dir, "aggression") IN
    IF load.raised THEN Failed
    ELSE IF ~load.got.found THEN Saved(drop_duplicates(SyntheticAggression))
    ELSE LET rec == ReconcileAggression(load.got.df) IN
         IF rec.raised THEN Failed
         ELSE Saved(drop_duplicates(Validate(rec.df)))

\* "Handle missing values": every numeric column's NaN takes the column's median
\* (a column without NaN is left as it is)
RECURSIVE FillNumeric(_, _)
FillNumeric(df, c) ==
    IF c > Len(df.cols) THEN df
    ELSE IF df.dtype[df.cols[c]] = "number" /\ HasNA(df, df.cols[c])
         THEN FillNumeric(fillna(df, df.cols[c], Median(Column(df, df.cols[c]))), c + 1)
         ELSE FillNumeric(df, c + 1)

\* the shared tail of the 7-scales, wellbeing and steam-games cleaning functions
CleanLoaded(df) == FillNumeric(drop_duplicates(df), 1)

clean_gaming_7scales_data(dir) ==
    LET load == LoadDefault(dir, "7scales") IN
    IF load.raised THEN Failed
    ELSE IF ~load.got.found THEN Saved(CleanLoaded(Synthetic7Scales))
    ELSE Saved(CleanLoaded(load.got.df))

clean_games_wellbeing_steam_data(dir) ==
    LET load == LoadDefault(dir, "wellbeing") IN
    IF load.raised THEN Failed
    ELSE IF ~load.got.found THEN Saved(CleanLoaded(SyntheticWellbeing))
    ELSE Saved(CleanLoaded(load.got.df))

\* clean_steam_games_data without the fallback: a missing file is an error
clean_steam_games_data_without_fallback(dir) ==
    LET load == LoadDefault(dir, "steam_games") IN
    IF load.raised \/ ~load.got.found THEN Failed
    ELSE Saved(CleanLoaded(load.got.df))

clean_steam_games_data(dir) ==
    LET load == LoadDefault(dir, "steam_games") IN
    IF load.raised THEN Failed
    ELSE IF ~load.got.found THEN Saved(CleanLoaded(SyntheticSteamGames))
    ELSE Saved(CleanLoaded(load.got.df))

\* the cleaning function main() calls for each key of results
Clean(kind, dir) ==
    CASE kind = "anxiety"     -> clean_gaming_anxiety_data(dir)
      [] kind = "aggression"  -> clean_gaming_aggression_data(dir)
      [] kind = "7scales"     -> clean_gaming_7scales_data(dir)
      [] kind = "wellbeing"   -> clean_games_wellbeing_steam_data(dir)
      [] kind = "steam_games" -> clean_steam_games_data(dir)

(***************************************************************************)
(* Cleaning stage: main()                                                  *)
(***************************************************************************)
\* one cleaning call of main(): results[kind] = clean_...(), which has written
\* the kind's artifact unless it failed
CleanStep(kind, out) ==
    /\ results' = [results EXCEPT ![kind] = out.ret]
    /\ clean_dir' = IF out.wrote = Absent THEN clean_dir
                    ELSE [clean_dir EXCEPT ![output_path(kind)] = out.wrote]
    /\ pc' = pc + 1
    /\ UNCHANGED <<raw_dir, merge_vars, prepare_vars, database_vars, fetch_vars>>

CleanAnxiety == pc = 1 /\ CleanStep("anxiety", clean_gaming_anxiety_data(raw_dir))
CleanAggression == pc = 2 /\ CleanStep("aggression", clean_gaming_aggression_data(raw_dir))
Clean7Scales == pc = 3 /\ CleanStep("7scales", clean_gaming_7scales_data(raw_dir))
CleanWellbeing == pc = 4 /\ CleanStep("wellbeing", clean_games_wellbeing_steam_data(raw_dir))
CleanSteamGames == pc = 5 /\ CleanStep("steam_games", clean_steam_games_data(raw_dir))

Next ==
    \/ CleanAnxiety
    \/ CleanAggression
    \/ Clean7Scales
    \/ CleanWellbeing
    \/ CleanSteamGames

(***************************************************************************)
(* The raw files the runs are checked on                                   *)
(***************************************************************************)
MaxRows == 2      \* respondents in a survey file
MaxFiles == 2     \* candidate files present in the raw directory

Q1 == "Feeling nervous, anxious or on edge"
Q2 == "Not being able to stop or control worrying"
G1 == "I have trouble controlling my temper"
G2 == "I get into fights more than most people"

Text(s) == IF s = "" THEN NA ELSE <<s>>

\* survey respondents: the answers as they stand in the file
Respondent(age, hours, gender, a1, a2) ==
    [age |-> Text(age), hours |-> Text(hours), gender |-> Text(gender),
     a1 |-> Text(a1), a2 |-> Text(a2)]

AnxietyRespondents ==
    { Respondent("22 years old", "more than 3 hours a day", "Male",
                 "Nearly every day", "Several days"),
      Respondent("", "", "Male", "", ""),
      Respondent("7", "3", "Female", "Not at all", "Not at all"),
      Respondent("30", "30", "Female", "Maybe", ""),
      Respondent("22", "3", "Male", "Often", "More than half the days"),
      Respondent("unknown age", "a lot", "Female", "", "Maybe") }

AggressionRespondents ==
    { Respondent("22 years old", "more than 3 hours a day", "Male",
                 "Strongly Agree", "Disagree"),
      Respondent("", "", "Male", "", ""),
      Respondent("7", "less than 1 hour", "Female", "Strongly Disagree", "Agree"),
      Respondent("150", "More than 5 hours", "Female", "Maybe", ""),
      Respondent("22", "more than 3 hours a day", "Male", "Agree",
                 "Neither agree nor disagree"),
      Respondent("unknown age", "30", "Female", "", "Maybe") }

\* the survey file of the respondents rs with the columns cols; field_of names
\* the answer each column holds
SurveyFrame(cols, field_of, rs) ==
    [cols  |-> cols,
     dtype |-> [c \in SeqToSet(cols) |-> "object"],
     rows  |-> [i \in 1..Len(rs) |-> [c \in SeqToSet(cols) |->
                  IF c \in DOMAIN field_of THEN rs[i][field_of[c]] ELSE <<"2024-01-05">>]]]

SeqsUpTo(S, n) == UNION {[1..k -> S] : k \in 0..n}

AnxietyField ==
    (age_col :> "age") @@ (anxiety_hours_col :> "hours") @@ (gender_col :> "gender")
        @@ (Q1 :> "a1") @@ (Q2 :> "a2")

AnxietyColumnSets ==
    { <<"Timestamp", age_col, anxiety_hours_col, gender_col, Q1, Q2>>,
      <<age_col, anxiety_hours_col>>,
      <<gender_col, Q1>>,
      <<"Timestamp">> }

AnxietyFrames ==
    {SurveyFrame(cols, AnxietyField, rs) :
        cols \in AnxietyColumnSets, rs \in SeqsUpTo(AnxietyRespondents, MaxRows)}

AggressionField ==
    (age_col :> "age") @@ (aggression_hours_col :> "hours")
        @@ ("Hours of play per day" :> "hours") @@ (gender_col :> "gender")
        @@ (G1 :> "a1") @@ (G2 :> "a2")

AggressionColumnSets ==
    { <<"Timestamp", aggression_hours_col, age_col, gender_col, G1, G2>>,
      <<"Hours of play per day", age_col>>,
      <<gender_col, G1>>,
      <<"Timestamp">> }

AggressionFrames ==
    {SurveyFrame(cols, AggressionField, rs) :
        cols \in AggressionColumnSets, rs \in SeqsUpTo(AggressionRespondents, MaxRows)}

\* an anxiety file whose hours column pd.read_csv parsed as numbers
AnxietyNumericHours ==
    [cols  |-> <<age_col, anxiety_hours_col, gender_col>>,
     dtype |-> (age_col :> "object") @@ (anxiety_hours_col :> "number")
                   @@ (gender_col :> "object"),
     rows  |-> << (age_col :> <<"22 years old">>) @@ (anxiety_hours_col :> <<3>>)
                      @@ (gender_col :> <<"Male">>),
                  (age_col :> <<"30">>) @@ (anxiety_hours_col :> <<4>>)
                      @@ (gender_col :> <<"Female">>) >>]

AnxietySample ==
    SurveyFrame(<<"Timestamp", age_col, anxiety_hours_col, gender_col, Q1, Q2>>, AnxietyField,
        << Respondent("22 years old", "more than 3 hours a day", "Male",
                      "Nearly every day", "Several days"),
           Respondent("", "", "Male", "", "") >>)

AggressionSample ==
    SurveyFrame(<<"Timestamp", aggression_hours_col, age_col, gender_col, G1, G2>>,
        AggressionField,
        << Respondent("22 years old", "more than 3 hours a day", "Male",
                      "Strongly Agree", "Disagree"),
           Respondent("7", "less than 1 hour", "Female", "Strongly Disagree", "Agree") >>)

\* a 7-scales file with a repeated row and a missing score
ScalesSample ==
    [cols  |-> <<"participant_id", "gaming_hours_daily", "gaming_addiction_score", "age">>,
     dtype |-> [participant_id |-> "object", gaming_hours_daily |-> "number",
                gaming_addiction_score |-> "number", age |-> "number"],
     rows  |-> << [participant_id |-> <<"S0001">>, gaming_hours_daily |-> <<25>>,
                   gaming_addiction_score |-> <<2>>, age |-> <<19>>],
                  [participant_id |-> <<"S0001">>, gaming_hours_daily |-> <<25>>,
                   gaming_addiction_score |-> <<2>>, age |-> <<19>>],
                  [participant_id |-> <<"P7">>, gaming_hours_daily |-> NA,
                   gaming_addiction_score |-> <<4>>, age |-> <<31>>] >>]

WellbeingSample ==
    [cols  |-> <<"user_id", "game_title", "hours_played", "wellbeing_score", "age">>,
     dtype |-> [user_id |-> "object", game_title |-> "object", hours_played |-> "number",
                wellbeing_score |-> "number", age |-> "number"],
     rows  |-> << [user_id |-> <<"U00001">>, game_title |-> <<"Dota 2">>,
                   hours_played |-> <<1200>>, wellbeing_score |-> <<7>>, age |-> <<24>>],
                  [user_id |-> <<"S0001">>, game_title |-> <<"PUBG">>,
                   hours_played |-> <<300>>, wellbeing_score |-> NA, age |-> <<19>>] >>]

\* a 7-scales file and a wellbeing file as a survey tool exports them, with
\* scores outside the scales
ScalesUnclipped ==
    [cols  |-> <<"participant_id", "openness_score", "gaming_addiction_score", "age">>,
     dtype |-> [participant_id |-> "object", openness_score |-> "number",
                gaming_addiction_score |-> "number", age |-> "number"],
     rows  |-> << [participant_id |-> <<"S0001">>, openness_score |-> <<0>>,
                   gaming_addiction_score |-> <<3>>, age |-> <<19>>],
                  [participant_id |-> <<"P7">>, openness_score |-> <<4>>,
                   gaming_addiction_score |-> <<9>>, age |-> <<31>>] >>]

WellbeingUnclipped ==
    [cols  |-> <<"user_id", "game_title", "wellbeing_score", "stress_level">>,
     dtype |-> [user_id |-> "object", game_title |-> "object",
                wellbeing_score |-> "number", stress_level |-> "number"],
     rows  |-> << [user_id |-> <<"U00001">>, game_title |-> <<"Dota 2">>,
                   wellbeing_score |-> <<14>>, stress_level |-> <<0>>] >>]

SteamSample ==
    [cols  |-> <<"game_id", "name", "price">>,
     dtype |-> [game_id |-> "object", name |-> "object", price |-> "number"],
     rows  |-> << [game_id |-> <<"G00001">>, name |-> <<"Dota 2">>, price |-> <<0>>],
                  [game_id |-> <<"G00002">>, name |-> <<"PUBG">>, price |-> <<30>>] >>]

NonUtf8 == AllEncodings \ {"utf-8"}

\* the files a candidate name of each kind may hold
FileOptions(kind) ==
    CASE kind = "anxiety" ->
            { File({}, AnxietySample), File(NonUtf8, AnxietySample),
              File(AllEncodings, AnxietySample), File(AllEncodings, AnxietyNumericHours) }
      [] kind = "aggression" ->
            { File(AllEncodings, AggressionSample), File(NonUtf8, AggressionSample) }
      [] kind = "7scales" ->
            { File(AllEncodings, ScalesSample), File(AllEncodings, Synthetic7Scales),
              File({}, ScalesSample), File(AllEncodings, ScalesUnclipped) }
      [] kind = "wellbeing" ->
            { File(AllEncodings, WellbeingSample), File(NonUtf8, WellbeingSample),
              File(AllEncodings, WellbeingUnclipped) }
      [] kind = "steam_games" ->
            { File(AllEncodings, SteamSample) }

KindOf(filename) ==
    Kinds[CHOOSE k \in 1..Len(Kinds) : filename \in SeqToSet(possible_files(Kinds[k]))]

\* an ordinary file of each kind
SampleOf(kind) ==
    CASE kind = "anxiety"     -> AnxietySample
      [] kind = "aggression"  -> AggressionSample
      [] kind = "7scales"     -> ScalesSample
      [] kind = "wellbeing"   -> WellbeingSample
      [] kind = "steam_games" -> SteamSample

\* the raw directory without any file
EmptyDir == [n \in FileNames |-> Absent]

\* the raw directory where the candidates of the kind `varied` hold the files
\* `held`, and the first candidate of every other kind holds an ordinary file
RawDir(varied, held) ==
    [n \in FileNames |->
        IF KindOf(n) = varied
        THEN IF n \in DOMAIN held THEN held[n] ELSE Absent
        ELSE IF n = possible_files(KindOf(n))[1]
             THEN File(AllEncodings, SampleOf(KindOf(n)))
             ELSE Absent]

\* the stages that a run does not reach
MergeIdle == datasets = NoDatasets /\ masters = <<>> /\ specialized = Pending
PrepareIdle == wellbeing_df = Pending /\ steam_df = Pending /\ merged_df = Pending
DatabaseIdle ==
    /\ merged_dir = <<>>
    /\ db_datasets = Pending
    /\ database = Pending
    /\ connections = 0
    /\ last_op = Pending
    /\ snapshots = <<>>
FetchIdle == now = 0 /\ api_calls = <<>> /\ remaining = <<>>

TypeOK ==
    /\ pc \in 1..9
    /\ DOMAIN results = SeqToSet(Kinds)
    /\ \A k \in 1..Len(Kinds) :
          results[Kinds[k]] = Pending <=> k >= pc

InitRun ==
    /\ clean_dir = [k \in {output_path(Kinds[i]) : i \in 1..Len(Kinds)} |-> Absent]
    /\ results = [k \in SeqToSet(Kinds) |-> Pending]
    /\ pc = 1
    /\ MergeIdle
    /\ PrepareIdle
    /\ DatabaseIdle
    /\ FetchIdle

\* main() on the empty raw directory, and on the raw directories where one
\* kind has at most MaxFiles candidate files of any sort
Init ==
    /\ \/ raw_dir = EmptyDir
       \/ \E k \in 1..Len(Kinds) :
             \E present \in SUBSET SeqToSet(possible_files(Kinds[k])) :
                /\ Cardinality(present) <= MaxFiles
                /\ \E held \in [present -> FileOptions(Kinds[k])] :
                      raw_dir = RawDir(Kinds[k], held)
    /\ InitRun

Spec == Init /\ [][Next]_vars

\* survey files with more question columns than the caps: eight anxiety
\* questions and sixteen aggression questions, answered in turn by the two
\* answers of each respondent
AnxietyManyQuestions ==
    <<"worry 1", "worry 2", "worry 3", "worry 4", "worry 5", "worry 6", "worry 7", "worry 8">>
AggressionManyQuestions ==
    <<"mad 1", "mad 2", "mad 3", "mad 4", "mad 5", "mad 6", "mad 7", "mad 8",
      "mad 9", "mad 10", "mad 11", "mad 12", "mad 13", "mad 14", "mad 15", "mad 16">>

ManyField(questions) ==
    (age_col :> "age") @@ (gender_col :> "gender") @@ (aggression_hours_col :> "hours")
        @@ [c \in SeqToSet(questions) |->
               IF (CHOOSE i \in 1..Len(questions) : questions[i] = c) % 2 = 1
               THEN "a1" ELSE "a2"]

AnxiousRespondent ==
    Respondent("22", "3", "Male", "Nearly every day", "Nearly every day")
AngryRespondent ==
    Respondent("22", "more than 3 hours a day", "Male", "Strongly Agree", "Strongly Agree")

\* the raw directory with both many-question files, the anxiety file holding
\* the respondents rs
ManyQuestionsDir(rs) ==
    [RawDir("anxiety",
            "gaming_anxiety.csv" :>
                File(AllEncodings,
                     SurveyFrame(<<age_col, gender_col>> \o AnxietyManyQuestions,
                                 ManyField(AnxietyManyQuestions), rs)))
        EXCEPT !["gaming_aggression.csv"] =
            File(AllEncodings,
                 SurveyFrame(<<aggression_hours_col, age_col, gender_col>>
                                 \o AggressionManyQuestions,
                             ManyField(AggressionManyQuestions),
                             << AngryRespondent,
                                Respondent("30", "less than 1 hour", "Female",
                                           "Strongly Agree", "Disagree") >>))]

\* main() on the empty raw directory, on the raw directories holding one
\* survey file of up to MaxRows respondents, and on those holding the two
\* many-question files
InitReconcile ==
    /\ \/ raw_dir = EmptyDir
       \/ \E df \in AnxietyFrames :
             raw_dir = RawDir("anxiety", "gaming_anxiety.csv" :> File(AllEncodings, df))
       \/ \E df \in AggressionFrames :
             raw_dir = RawDir("aggression", "gaming_aggression.csv" :> File(AllEncodings, df))
       \/ \E rs \in SeqsUpTo(AnxietyRespondents \cup {AnxiousRespondent}, MaxRows) :
             raw_dir = ManyQuestionsDir(rs)
    /\ InitRun

SpecReconcile == InitReconcile /\ [][Next]_vars

(***************************************************************************)
(* Cleaning stage: properties                                              *)
(***************************************************************************)
\* the synthetic table of each kind and its n_samples
SyntheticOf(kind) ==
    CASE kind = "anxiety"     -> SyntheticAnxiety
      [] kind = "aggression"  -> SyntheticAggression
      [] kind = "7scales"     -> Synthetic7Scales
      [] kind = "wellbeing"   -> SyntheticWellbeing
      [] kind = "steam_games" -> SyntheticSteamGames

n_samples(kind) ==
    CASE kind = "anxiety"     -> n_samples_anxiety
      [] kind = "aggression"  -> n_samples_aggression
      [] kind = "7scales"     -> n_samples_7scales
      [] kind = "wellbeing"   -> n_samples_wellbeing
      [] kind = "steam_games" -> n_samples_steam

\* main() has made the call of the k-th kind
Called(k) == pc > k

\* C1: once the cleaning function of a kind without any candidate file has
\* returned, its result is a table and not None, the table is the kind's
\* synthetic table (the one its seed determines) with the kind's n_samples rows
\* (1000, 800, 1200, 1500, 500), and the kind's cleaned artifact holds that table.
C1_SyntheticWhenNoFile ==
    \A k \in 1..Len(Kinds) :
        (Called(k) /\ ~AnyExists(raw_dir, Kinds[k])) =>
            /\ results[Kinds[k]] = Returned(SyntheticOf(Kinds[k]))
            /\ Len(results[Kinds[k]].df.rows) = n_samples(Kinds[k])
            /\ Len(results[Kinds[k]].df.rows) > 0
            /\ clean_dir[output_path(Kinds[k])] = SyntheticOf(Kinds[k])

\* the run on the empty raw directory has ended with five synthetic tables
C1_Witness ==
    /\ pc = Len(Kinds) + 1
    /\ raw_dir = EmptyDir
    /\ Len(results["anxiety"].df.rows) = 1000
    /\ Len(results["aggression"].df.rows) = 800
    /\ Len(results["7scales"].df.rows) = 1200
    /\ Len(results["wellbeing"].df.rows) = 1500
    /\ Len(results["steam_games"].df.rows) = 500
    /\ \A k \in 1..Len(Kinds) : clean_dir[output_path(Kinds[k])] # Absent

\* C2: the value a cleaning function returns for a kind whose file is present,
\* and the artifact it writes, differ from what it returns and writes when the
\* file is absent (the synthetic table), so the caller can tell the two apart.
C2_SyntheticDistinguishable ==
    \A k \in 1..Len(Kinds) :
        (Called(k) /\ AnyExists(raw_dir, Kinds[k]) /\ results[Kinds[k]] # None) =>
            /\ results[Kinds[k]] # Returned(SyntheticOf(Kinds[k]))
            /\ clean_dir[output_path(Kinds[k])] # SyntheticOf(Kinds[k])

\* some existing candidate file of the anxiety kind decodes under no encoding
SomeAnxietyFileUndecodable ==
    \E f \in 1..Len(possible_files("anxiety")) :
        /\ exists(raw_dir, possible_files("anxiety")[f])
        /\ raw_dir[possible_files("anxiety")[f]].decodes \cap AllEncodings = {}

\* no existing candidate file of the anxiety kind decodes under any encoding
NoAnxietyFileDecodable ==
    \A f \in 1..Len(possible_files("anxiety")) :
        exists(raw_dir, possible_files("anxiety")[f]) =>
            raw_dir[possible_files("anxiety")[f]].decodes \cap AllEncodings = {}

\* the first existing candidate of the k-th kind, if any, decodes as utf-8
Readable(k) ==
    \/ ~AnyExists(raw_dir, Kinds[k])
    \/ "utf-8" \in raw_dir[possible_files(Kinds[k])[FirstExisting(raw_dir, Kinds[k])]].decodes

C7_FieldErrorDoesNotAbort ==
    (Called(1) /\ AnyExists(raw_dir, "anxiety") /\ ~NoAnxietyFileDecodable) =>
        results["anxiety"].status = "df"

(***************************************************************************)
(* Column reconciliation: properties                                       *)
(***************************************************************************)
\* the survey kinds: the ones clean_gaming_anxiety_data and
\* clean_gaming_aggression_data clean
SurveyKinds == {1, 2}

\* C4: every row of the table clean_gaming_anxiety_data or
\* clean_gaming_aggression_data returned, from a real file or synthetic, has an
\* age within 10..99 and a gaming_hours_daily within 0..24 hours, neither missing.
C4_RowsWithinDomains ==
    \A k \in SurveyKinds :
        (Called(k) /\ results[Kinds[k]] # None) =>
            \A i \in 1..Len(results[Kinds[k]].df.rows) :
                LET row == results[Kinds[k]].df.rows[i] IN
                /\ row["age"] # NA /\ row["age"][1] >= 10 /\ row["age"][1] <= 99
                /\ row["gaming_hours_daily"] # NA
                /\ row["gaming_hours_daily"][1] >= 0
                /\ row["gaming_hours_daily"][1] <= 240

\* an anxiety file of two respondents, one of them answering 30 hours a day,
\* was cleaned to a table of one row
C4_Witness ==
    /\ Called(1)
    /\ exists(raw_dir, "gaming_anxiety.csv")
    /\ Len(raw_dir["gaming_anxiety.csv"].df.rows) = 2
    /\ \E i \in 1..2 :
          /\ anxiety_hours_col \in DOMAIN raw_dir["gaming_anxiety.csv"].df.rows[i]
          /\ raw_dir["gaming_anxiety.csv"].df.rows[i][anxiety_hours_col] = <<"30">>
    /\ results["anxiety"] # None
    /\ Len(results["anxiety"].df.rows) = 1

\* C5: the anxiety file of the two respondents ('22 years old', 'more than 3
\* hours a day') and (age missing, hours missing) is cleaned to two rows, the
\* first with age 22 and 4.0 hours, the second with age 22 and 2.0 hours.
C5_TwoRespondentsExample ==
    (Called(1) /\ raw_dir["gaming_anxiety.csv"] = File(AllEncodings, AnxietySample)) =>
        /\ results["anxiety"] # None
        /\ Len(results["anxiety"].df.rows) = 2
        /\ results["anxiety"].df.rows[1]["age"] = <<22>>
        /\ results["anxiety"].df.rows[1]["gaming_hours_daily"] = <<40>>
        /\ results["anxiety"].df.rows[2]["age"] = <<22>>
        /\ results["anxiety"].df.rows[2]["gaming_hours_daily"] = <<20>>

\* the respondents of the k-th kind's survey file whose reconciled age and
\* hours are within their domains
InDomain(k) ==
    LET raw_df == raw_dir[possible_files(Kinds[k])[1]].df
        rec == IF k = 1 THEN ReconcileAnxiety(raw_df) ELSE ReconcileAggression(raw_df)
    IN Len(Validate(rec.df).rows)

expected_files ==
    << [name |-> "anxiety",           filename |-> "gaming_anxiety_clean.csv"],
       [name |-> "aggression",        filename |-> "gaming_aggression_clean.csv"],
       [name |-> "wellbeing",         filename |-> "games_wellbeing_steam_clean.csv"],
       [name |-> "prediction_scales", filename |-> "gaming_7scales_clean.csv"],
       [name |-> "steam_games",       filename |-> "steam_games_clean.csv"] >>

\* pd.read_csv of a file df.to_csv(index=False) wrote: the columns and rows in
\* order; an empty field (NaN or the empty string when written) reads as NaN
read_csv(written) ==
    [written EXCEPT !.rows = [i \in 1..Len(written.rows) |->
        [c \in DOMAIN written.rows[i] |->
            IF written.dtype[c] = "object" /\ written.rows[i][c] = <<"">>
            THEN NA ELSE written.rows[i][c]]]]

\* load_cleaned_datasets: the expected files that exist, keyed by dataset name
load_cleaned_datasets(cleaned_data_dir) ==
    LET there(e) == cleaned_data_dir[e.filename] # Absent
        found == FilterSeq(expected_files, {v \in SeqToSet(expected_files) : there(v)}, 1)
    IN [keys |-> [i \in 1..Len(found) |-> found[i].name],
        df   |-> [n \in {found[i].name : i \in 1..Len(found)} |->
                    read_csv(cleaned_data_dir[
                        (CHOOSE e \in SeqToSet(expected_files) : e.name = n).filename])]]

\* column_mapping of standardize_column_names, in the dict's insertion order
column_mapping ==
    << <<"gaming_hours_weekly", "gaming_hours_weekly">>,
       <<"gaming_hours_per_week", "gaming_hours_weekly">>,
       <<"weekly_gaming_hours", "gaming_hours_weekly">>,
       <<"hours_per_week", "gaming_hours_weekly">>,
       <<"gaming_hours_daily", "gaming_hours_daily">>,
       <<"hours_played", "hours_played">>,
       <<"participant_id", "participant_id">>,
       <<"id", "participant_id">>,
       <<"user_id", "participant_id">>,
       <<"subject_id", "participant_id">>,
       <<"age", "age">>,
       <<"participant_age", "age">>,
       <<"user_age", "age">>,
       <<"gaming_preference", "gaming_preference">>,
       <<"game_preference", "gaming_preference">>,
       <<"preferred_genre", "gaming_preference">>,
       <<"favorite_genre", "gaming_preference">>,
       <<"game_type_preference", "gaming_preference">> >>

\* df.rename(columns={old_name: new_name}) on a table without a column new_name
rename(df, old_name, new_name) ==
    LET from(c) == IF c = new_name THEN old_name ELSE c
        labels  == (SeqToSet(df.cols) \ {old_name}) \cup {new_name}
    IN [cols  |-> [i \in 1..Len(df.cols) |->
                     IF df.cols[i] = old_name THEN new_name ELSE df.cols[i]],
        dtype |-> [c \in labels |-> df.dtype[from(c)]],
        rows  |-> [i \in 1..Len(df.rows) |-> [c \in labels |-> df.rows[i][from(c)]]]]

\* the renaming loop of standardize_column_names over column_mapping.items()
RECURSIVE ApplyMapping(_, _)
ApplyMapping(df, m) ==
    IF m > Len(column_mapping) THEN df
    ELSE LET old_name == column_mapping[m][1]
             new_name == column_mapping[m][2]
         IN IF old_name \in SeqToSet(df.cols) /\ old_name # new_name
            THEN ApplyMapping(rename(df, old_name, new_name), m + 1)
            ELSE ApplyMapping(df, m + 1)

standardize_column_names(dsets) ==
    [keys |-> dsets.keys,
     df   |-> [n \in DOMAIN dsets.df |-> ApplyMapping(dsets.df[n], 1)]]

\* all_columns of create_master_dataset
all_columns(dsets) == UNION {SeqToSet(dsets.df[n].cols) : n \in DOMAIN dsets.df}

\* column_counts[col]
column_counts(dsets, col) ==
    Cardinality({n \in DOMAIN dsets.df : col \in SeqToSet(dsets.df[n].cols)})

gaming_hours_cols == <<"gaming_hours_weekly", "gaming_hours_daily", "hours_played">>

\* the loop over gaming_hours_cols without its break: every hours column found
core_columns_every_hours_column(dsets) ==
    LET anywhere(col) == col \in all_columns(dsets) IN
    <<"participant_id", "age">>
        \o FilterSeq(gaming_hours_cols, {v \in SeqToSet(gaming_hours_cols) : anywhere(v)}, 1)
        \o (IF anywhere("gaming_preference") THEN <<"gaming_preference">> ELSE <<>>)

core_columns(dsets) ==
    LET anywhere(col) == col \in all_columns(dsets) IN
    <<"participant_id", "age">>
        \o Take(FilterSeq(gaming_hours_cols, {v \in SeqToSet(gaming_hours_cols) : anywhere(v)}, 1), 1)
        \o (IF anywhere("gaming_preference") THEN <<"gaming_preference">> ELSE <<>>)

\* additional_columns: column_counts.items() follows the iteration order of the
\* set all_columns, which `order` lists
additional_columns(dsets, order) ==
    LET more(col) == column_counts(dsets, col) >= 2
                        /\ col \notin SeqToSet(core_columns(dsets))
    IN FilterSeq(order, {v \in SeqToSet(order) : more(v)}, 1)

selected_columns(dsets, order) == core_columns(dsets) \o additional_columns(dsets, order)

\* available_columns of one dataset
available_columns(df, selected) ==
    LET available(col) == col \in SeqToSet(df.cols) IN FilterSeq(selected, {v \in SeqToSet(selected) : available(v)}, 1)

\* datasets.items() keyed by the hash order: the datasets holding the column the
\* set iteration lists first come first
dataset_items_in_hash_order(dsets, order) ==
    LET first(n) == order # <<>> /\ order[1] \in SeqToSet(dsets.df[n].cols)
        later(n) == ~first(n)
    IN FilterSeq(dsets.keys, {v \in SeqToSet(dsets.keys) : first(v)}, 1) \o FilterSeq(dsets.keys, {v \in SeqToSet(dsets.keys) : later(v)}, 1)

\* datasets.items(): a dict iterates in insertion order, whatever the hash order
dataset_items(dsets, order) == dsets.keys

\* df.head(1) in place of df: only the first row of the table is taken
subset_first_row_with_source(df, available, dataset_name) ==
    LET labels == SeqToSet(available) \cup {"data_source"} IN
    [cols  |-> IF "data_source" \in SeqToSet(available) THEN available
               ELSE Append(available, "data_source"),
     dtype |-> [c \in labels |-> IF c = "data_source" THEN "object" ELSE df.dtype[c]],
     rows  |-> [i \in 1..(IF df.rows = <<>> THEN 0 ELSE 1) |-> [c \in labels |->
                  IF c = "data_source" THEN <<dataset_name>> ELSE df.rows[i][c]]]]

\* df[available_columns].copy() with df_subset['data_source'] = dataset_name
subset_with_source(df, available, dataset_name) ==
    LET labels == SeqToSet(available) \cup {"data_source"} IN
    [cols  |-> IF "data_source" \in SeqToSet(available) THEN available
               ELSE Append(available, "data_source"),
     dtype |-> [c \in labels |-> IF c = "data_source" THEN "object" ELSE df.dtype[c]],
     rows  |-> [i \in 1..Len(df.rows) |-> [c \in labels |->
                  IF c = "data_source" THEN <<dataset_name>> ELSE df.rows[i][c]]]]

\* the columns of pd.concat(frames, sort=False): in the order of first appearance
RECURSIVE ConcatColumns(_, _, _)
ConcatColumns(frames, i, acc) ==
    IF i > Len(frames) THEN acc
    ELSE LET new(c) == c \notin SeqToSet(acc) IN
         ConcatColumns(frames, i + 1, acc \o FilterSeq(frames[i].cols, {v \in SeqToSet(frames[i].cols) : new(v)}, 1))

\* the rows of pd.concat(frames, ignore_index=True): frame after frame, NaN in
\* the columns a frame lacks
RECURSIVE ConcatRows(_, _, _)
ConcatRows(frames, i, labels) ==
    IF i > Len(frames) THEN <<>>
    ELSE [j \in 1..Len(frames[i].rows) |-> [c \in labels |->
              IF c \in SeqToSet(frames[i].cols) THEN frames[i].rows[j][c] ELSE NA]]
         \o ConcatRows(frames, i + 1, labels)

concat(frames) ==
    LET cols   == ConcatColumns(frames, 1, <<>>)
        labels == SeqToSet(cols)
        holder(c) == CHOOSE i \in 1..Len(frames) :
                        /\ c \in SeqToSet(frames[i].cols)
                        /\ \A j \in 1..(i - 1) : c \notin SeqToSet(frames[j].cols)
    IN [cols  |-> cols,
        dtype |-> [c \in labels |-> frames[holder(c)].dtype[c]],
        rows  |-> ConcatRows(frames, 1, labels)]

\* drop_duplicates(subset=[col], keep='last')
drop_duplicates_keep_last(df, col) ==
    [df EXCEPT !.rows = SelectRows(df.rows,
        {i \in 1..Len(df.rows) :
            \A j \in (i + 1)..Len(df.rows) : df.rows[j][col] # df.rows[i][col]}, 1)]

\* drop_duplicates() without subset: whole rows are compared
drop_duplicates_whole_rows(df, col) == drop_duplicates(df)

\* master_df.drop_duplicates(subset=[col], keep='first'); NaN equals NaN
drop_duplicates_subset(df, col) ==
    [df EXCEPT !.rows = SelectRows(df.rows,
        {i \in 1..Len(df.rows) :
            \A j \in 1..(i - 1) : df.rows[j][col] # df.rows[i][col]}, 1)]

\* create_master_dataset(datasets); order is the iteration order of all_columns
create_master_dataset(dsets, order) ==
    IF dsets.keys = <<>> THEN None
    ELSE LET selected == selected_columns(dsets, order)
             enough(n) == Len(available_columns(dsets.df[n], selected)) >= 2
             kept == FilterSeq(dataset_items(dsets, order), {v \in SeqToSet(dataset_items(dsets, order)) : enough(v)}, 1)
             combined_dfs ==
                 [i \in 1..Len(kept) |->
                     subset_with_source(dsets.df[kept[i]],
                         available_columns(dsets.df[kept[i]], selected), kept[i])]
         IN IF Len(kept) = 0 THEN None
            ELSE LET master_df == concat(combined_dfs) IN
                 IF "participant_id" \in SeqToSet(master_df.cols)
                 THEN Returned(drop_duplicates_subset(master_df, "participant_id"))
                 ELSE Returned(master_df)

\* the orderings of a finite set
Orderings(S) ==
    {p \in [1..Cardinality(S) -> S] : \A i, j \in 1..Cardinality(S) : p[i] = p[j] => i = j}

\* the iteration orders of the set all_columns, one per hash seed, up to the
\* places of the columns additional_columns leaves out whatever their place
IterationOrders(dsets) ==
    LET listed == ConcatColumns([i \in 1..Len(dsets.keys) |-> dsets.df[dsets.keys[i]]],
                                1, <<>>)
        moves(col) == column_counts(dsets, col) >= 2
                         /\ col \notin SeqToSet(core_columns(dsets))
        stays(col) == ~moves(col)
    IN {p \o FilterSeq(listed, {v \in SeqToSet(listed) : stays(v)}, 1) :
            p \in Orderings({c \in all_columns(dsets) : moves(c)})}

MaxCalls == 2     \* calls of create_master_dataset on the same datasets

\* merge_gaming_datasets(): load_cleaned_datasets, and the early return when
\* nothing was loaded
LoadCleanedDatasets ==
    /\ pc = 6
    /\ datasets' = load_cleaned_datasets(clean_dir)
    /\ pc' = IF load_cleaned_datasets(clean_dir).keys = <<>> THEN 9 ELSE 7
    /\ UNCHANGED <<cleaning_vars, masters, specialized, prepare_vars, database_vars, fetch_vars>>

StandardizeColumnNames ==
    /\ pc = 7
    /\ datasets' = standardize_column_names(datasets)
    /\ pc' = 8
    /\ UNCHANGED <<cleaning_vars, masters, specialized, prepare_vars, database_vars, fetch_vars>>

\* one call of create_master_dataset(datasets), under any hash seed
CreateMasterDataset ==
    /\ pc = 8
    /\ Len(masters) < MaxCalls
    /\ \E order \in IterationOrders(datasets) :
          masters' = Append(masters, create_master_dataset(datasets, order))
    /\ UNCHANGED <<cleaning_vars, pc, datasets, specialized, prepare_vars, database_vars, fetch_vars>>

\* the column names of the cleaned tables, as sorted() orders them
ColumnOrder ==
    <<"age", "aggression_score", "anxiety_score", "data_source", "game_id",
      "game_title", "gaming_addiction_score", "gaming_hours_daily",
      "gaming_hours_weekly", "gaming_preference", "gender", "genre", "hours_played",
      "id", "name", "participant_id", "price", "source_dataset", "stress_level",
      "user_id", "wellbeing_score">>

\* sorted(columns)
sorted(columns) == FilterSeq(ColumnOrder, columns, 1)

\* df[cols]: the listed columns in the listed order (a label listed twice gives
\* the column twice)
Project(df, cols) ==
    [cols  |-> cols,
     dtype |-> [c \in SeqToSet(cols) |-> df.dtype[c]],
     rows  |-> [i \in 1..Len(df.rows) |-> [c \in SeqToSet(cols) |-> df.rows[i][c]]]]

mental_health_keywords == <<"anxiety", "wellbeing", "aggression", "depression", "stress">>
gaming_keywords == <<"gaming", "play", "hours", "time", "frequency", "preference">>

\* the columns of df whose lower-cased name holds one of the keywords
KeywordColumns(df, keywords) ==
    FilterSeq(df.cols, {c \in SeqToSet(df.cols) : MatchesAny(c, keywords)}, 1)

\* mental_health_cols of one table: the basic columns, the first hours column
\* it has, gaming_preference, and its keyword columns
mental_health_cols(df) ==
    LET has(c) == c \in SeqToSet(df.cols)
        hours == FilterSeq(gaming_hours_cols, {c \in SeqToSet(gaming_hours_cols) : has(c)}, 1)
    IN <<"participant_id", "age">>
          \o Take(hours, 1)
          \o (IF has("gaming_preference") THEN <<"gaming_preference">> ELSE <<>>)
          \o KeywordColumns(df, mental_health_keywords)

\* gaming_cols of one table: the basic columns, every hours column it has, and
\* its keyword columns
gaming_cols(df) ==
    LET has(c) == c \in SeqToSet(df.cols)
    IN <<"participant_id", "age">>
          \o FilterSeq(gaming_hours_cols, {c \in SeqToSet(gaming_hours_cols) : has(c)}, 1)
          \o KeywordColumns(df, gaming_keywords)

\* whether a table is taken into the view, by its available columns
IncludedInMentalHealth(df) ==
    /\ \E c \in {"anxiety_score", "wellbeing_score", "aggression_score"} :
          c \in SeqToSet(df.cols)
    /\ Len(available_columns(df, mental_health_cols(df))) > 2

\* IncludedInGamingBehavior with the test of the mental-health loop added
included_in_gaming_behavior_more_than_two(df) ==
    /\ \E c \in {"gaming_hours_weekly", "gaming_hours_daily", "hours_played",
                 "gaming_preference"} :
          c \in SeqToSet(available_columns(df, gaming_cols(df)))
    /\ Len(available_columns(df, gaming_cols(df))) > 2

IncludedInGamingBehavior(df) ==
    \E c \in {"gaming_hours_weekly", "gaming_hours_daily", "hours_played",
              "gaming_preference"} :
       c \in SeqToSet(available_columns(df, gaming_cols(df)))

\* the contribution of one table: df[available_cols].copy() with its
\* source_dataset
ViewContribution(df, cols, dataset_name) ==
    LET part == Project(df, available_columns(df, cols))
    IN [part EXCEPT
           !.cols = IF "source_dataset" \in SeqToSet(@) THEN @ ELSE Append(@, "source_dataset"),
           !.dtype = [c \in DOMAIN @ \cup {"source_dataset"} |->
                        IF c = "source_dataset" THEN "object" ELSE @[c]],
           !.rows = [i \in 1..Len(@) |-> [c \in DOMAIN part.dtype \cup {"source_dataset"} |->
                        IF c = "source_dataset" THEN <<dataset_name>> ELSE @[i][c]]]]

\* mental_health_dfs and gaming_behavior_dfs: the contributions in the order of
\* datasets.items()
RECURSIVE mental_health_dfs(_, _)
mental_health_dfs(dsets, i) ==
    IF i > Len(dsets.keys) THEN <<>>
    ELSE LET df == dsets.df[dsets.keys[i]] IN
         (IF IncludedInMentalHealth(df)
          THEN <<ViewContribution(df, mental_health_cols(df), dsets.keys[i])>>
          ELSE <<>>) \o mental_health_dfs(dsets, i + 1)

RECURSIVE gaming_behavior_dfs(_, _)
gaming_behavior_dfs(dsets, i) ==
    IF i > Len(dsets.keys) THEN <<>>
    ELSE LET df == dsets.df[dsets.keys[i]] IN
         (IF IncludedInGamingBehavior(df)
          THEN <<ViewContribution(df, gaming_cols(df), dsets.keys[i])>>
          ELSE <<>>) \o gaming_behavior_dfs(dsets, i + 1)

\* df_std[sorted(all_columns)] of one contribution: the sorted labels, a label
\* the contribution holds twice standing twice
RECURSIVE StandardizedColumns(_, _, _)
StandardizedColumns(df, labels, i) ==
    IF i > Len(labels) THEN <<>>
    ELSE LET held == FilterSeq(df.cols, {labels[i]}, 1) IN
         (IF held = <<>> THEN <<labels[i]>> ELSE held)
            \o StandardizedColumns(df, labels, i + 1)

\* the try block that builds a view from its contributions: every contribution
\* gets the missing columns as NaN and the sorted column order, and pd.concat
\* stacks them.  pd.concat has to reindex when the column indexes differ and
\* raises on an index with a repeated label; the except block then takes the
\* first contribution alone, source_dataset 'simplified'.
combine_view(dfs) ==
    LET all == UNION {SeqToSet(dfs[i].cols) : i \in 1..Len(dfs)}
        std(i) == StandardizedColumns(dfs[i], sorted(all), 1)
        repeated(cols) == Len(cols) # Cardinality(SeqToSet(cols))
        raises == \E i, j \in 1..Len(dfs) : std(i) # std(j) /\ (repeated(std(i)) \/ repeated(std(j)))
    IN IF raises
       THEN [dfs[1] EXCEPT !.rows = [i \in 1..Len(@) |->
                                        [@[i] EXCEPT !["source_dataset"] = <<"simplified">>]]]
       ELSE [cols  |-> std(1),
             dtype |-> [c \in all |->
                          dfs[CHOOSE i \in 1..Len(dfs) :
                                 /\ c \in SeqToSet(dfs[i].cols)
                                 /\ \A j \in 1..(i - 1) : c \notin SeqToSet(dfs[j].cols)].dtype[c]],
             rows  |-> ConcatRows(dfs, 1, all)]

\* create_analysis_specific_datasets(datasets, merged_data_dir): the dict
\* returned, in insertion order
create_analysis_specific_datasets(dsets) ==
    LET mental == mental_health_dfs(dsets, 1)
        gaming == gaming_behavior_dfs(dsets, 1)
        has(n) == n \in SeqToSet(dsets.keys)
        keys == (IF mental # <<>> THEN <<"mental_health">> ELSE <<>>)
                   \o (IF gaming # <<>> THEN <<"gaming_behavior">> ELSE <<>>)
                   \o (IF has("prediction_scales") THEN <<"prediction_scales">> ELSE <<>>)
                   \o (IF has("steam_games") THEN <<"steam_games">> ELSE <<>>)
    IN [keys |-> keys,
        df   |-> [n \in SeqToSet(keys) |->
                    CASE n = "mental_health" -> combine_view(mental)
                      [] n = "gaming_behavior" -> combine_view(gaming)
                      [] OTHER -> dsets.df[n]]]

\* merge_gaming_datasets(): the views are built right after the script's one
\* call of create_master_dataset
CreateAnalysisSpecificDatasets ==
    /\ pc = 8
    /\ Len(masters) = 1
    /\ specialized' = create_analysis_specific_datasets(datasets)
    /\ pc' = 9
    /\ UNCHANGED <<cleaning_vars, datasets, masters, prepare_vars, database_vars, fetch_vars>>

NextMerge ==
    \/ LoadCleanedDatasets
    \/ StandardizeColumnNames
    \/ CreateMasterDataset

(***************************************************************************)
(* The cleaned tables the merge is checked on                              *)
(***************************************************************************)
MaxMergeRows == 2     \* rows of a cleaned table

MergeIds == {"P1", "P2"}

\* the cell of column c in the j-th row of the table of source s; the age tells
\* the rows of all tables apart
MergeCell(c, s, j, id) ==
    CASE c \in {"participant_id", "user_id", "id", "game_id"} -> <<id>>
      [] c = "age" -> <<20 + 10 * s + j>>
      [] c = "gender" -> <<"male">>
      [] c \in {"genre", "game_title", "name", "gaming_preference"} -> <<"Action">>
      [] OTHER -> <<s + j>>

\* the cleaned table of source s with the columns cols, one row per id of ids
CleanedTable(s, cols, ids) ==
    [cols  |-> cols,
     dtype |-> [c \in SeqToSet(cols) |->
                  IF c \in {"participant_id", "user_id", "id", "game_id", "gender",
                            "genre", "game_title", "name", "gaming_preference"}
                  THEN "object" ELSE "number"],
     rows  |-> [j \in 1..Len(ids) |-> [c \in SeqToSet(cols) |-> MergeCell(c, s, j, ids[j])]]]

\* the artifacts each cleaned file may hold
CleanedOptions(s) ==
    CASE s = 1 ->
            {Absent,
             CleanedTable(1, <<"age", "gaming_hours_daily", "gender", "anxiety_score">>,
                          <<"P1">>),
             CleanedTable(1, <<"age", "gaming_hours_daily", "gender", "anxiety_score">>,
                          <<"P1", "P2">>)}
            \cup {CleanedTable(1, SyntheticAnxiety.cols, ids) :
                     ids \in SeqsUpTo(MergeIds, MaxMergeRows)}
      [] s = 2 ->
            {Absent}
            \cup {CleanedTable(2, SyntheticAggression.cols, ids) :
                     ids \in {<<"P1">>, <<"P2", "P1">>}}
      [] s = 3 ->
            {Absent,
             CleanedTable(3, <<"user_id", "gaming_preference", "hours_played",
                               "wellbeing_score", "age">>, <<"P2">>)}
            \cup {CleanedTable(3, <<"user_id", "game_title", "genre", "hours_played",
                                    "wellbeing_score", "stress_level", "age">>, ids) :
                     ids \in {<<"P1">>, <<"P2", "P1">>}}
      [] s = 4 ->
            {Absent}
            \cup {CleanedTable(4, <<"participant_id", "gaming_hours_daily",
                                    "gaming_addiction_score", "stress_level", "age">>, ids) :
                     ids \in {<<"P1">>, <<"P2", "P2">>}}
      [] s = 5 ->
            {Absent,
             CleanedTable(5, <<"game_id", "name", "genre", "price">>, <<"P1">>),
             CleanedTable(5, <<"id", "genre", "price">>, <<"P1">>)}

\* the merge script started on a cleaned directory
InitMerge ==
    /\ raw_dir = EmptyDir
    /\ \E a1 \in CleanedOptions(1), a2 \in CleanedOptions(2), a3 \in CleanedOptions(3),
          a4 \in CleanedOptions(4), a5 \in CleanedOptions(5) :
          clean_dir = (expected_files[1].filename :> a1) @@ (expected_files[2].filename :> a2)
                          @@ (expected_files[3].filename :> a3)
                          @@ (expected_files[4].filename :> a4)
                          @@ (expected_files[5].filename :> a5)
    /\ results = [k \in SeqToSet(Kinds) |->
                    IF clean_dir[output_path(k)] = Absent THEN None
                    ELSE Returned(clean_dir[output_path(k)])]
    /\ pc = 6
    /\ MergeIdle
    /\ PrepareIdle
    /\ DatabaseIdle
    /\ FetchIdle

SpecMerge == InitMerge /\ [][NextMerge]_vars

(***************************************************************************)
(* The merge script with its analysis views, on a smaller family of        *)
(* cleaned directories                                                     *)
(***************************************************************************)
NextViews ==
    \/ LoadCleanedDatasets
    \/ StandardizeColumnNames
    \/ CreateMasterDataset
    \/ CreateAnalysisSpecificDatasets

\* the artifacts each cleaned file may hold
ViewOptions(s) ==
    CASE s = 1 ->
            {Absent,
             CleanedTable(1, <<"age", "gaming_hours_daily", "gender", "anxiety_score">>,
                          <<"P1">>),
             CleanedTable(1, SyntheticAnxiety.cols, <<"P1", "P2">>)}
      [] s = 2 ->
            {Absent, CleanedTable(2, SyntheticAggression.cols, <<"P1">>)}
      [] s = 3 ->
            {Absent,
             CleanedTable(3, <<"user_id", "gaming_preference", "hours_played",
                               "wellbeing_score", "age">>, <<"P2">>),
             CleanedTable(3, <<"user_id", "game_title", "genre", "hours_played",
                               "wellbeing_score", "stress_level", "age">>, <<"P2", "P1">>),
             CleanedTable(3, <<"game_title", "hours_played", "wellbeing_score">>, <<"P1">>)}
      [] s = 4 ->
            {Absent,
             CleanedTable(4, <<"participant_id", "gaming_hours_daily",
                               "gaming_addiction_score", "stress_level", "age">>,
                          <<"P1">>)}
      [] s = 5 ->
            {Absent,
             CleanedTable(5, <<"game_id", "name", "genre", "price">>, <<"P1">>),
             CleanedTable(5, <<"id", "genre", "price">>, <<"P1">>)}

InitViews ==
    /\ raw_dir = EmptyDir
    /\ \E a1 \in ViewOptions(1), a2 \in ViewOptions(2), a3 \in ViewOptions(3),
          a4 \in ViewOptions(4), a5 \in ViewOptions(5) :
          clean_dir = (expected_files[1].filename :> a1) @@ (expected_files[2].filename :> a2)
                          @@ (expected_files[3].filename :> a3)
                          @@ (expected_files[4].filename :> a4)
                          @@ (expected_files[5].filename :> a5)
    /\ results = [k \in SeqToSet(Kinds) |->
                    IF clean_dir[output_path(k)] = Absent THEN None
                    ELSE Returned(clean_dir[output_path(k)])]
    /\ pc = 6
    /\ MergeIdle
    /\ PrepareIdle
    /\ DatabaseIdle
    /\ FetchIdle

SpecViews == InitViews /\ [][NextViews]_vars

(***************************************************************************)
(* Merge stage: properties                                                 *)
(***************************************************************************)
\* the place of a dataset in the source order anxiety, aggression, wellbeing,
\* prediction_scales, steam_games
SourcePlace(n) ==
    CASE n = "anxiety" -> 1
      [] n = "aggression" -> 2
      [] n = "wellbeing" -> 3
      [] n = "prediction_scales" -> 4
      [] n = "steam_games" -> 5

\* the dataset n has at least two of the selected columns, so it contributes
Contributes(dsets, n) ==
    Cardinality(SeqToSet(dsets.df[n].cols)
                    \cap (SeqToSet(core_columns(dsets))
                             \cup {c \in all_columns(dsets) : column_counts(dsets, c) >= 2}))
        >= 2

\* the participant_id of the i-th row of dataset n (NaN without the column)
IdOf(dsets, n, i) ==
    IF "participant_id" \in SeqToSet(dsets.df[n].cols)
    THEN dsets.df[n].rows[i]["participant_id"] ELSE NA

C9_FirstOccurrenceKept ==
    \A m \in 1..Len(masters) :
        (masters[m] # None /\ "participant_id" \in SeqToSet(masters[m].df.cols)) =>
            /\ \A r \in 1..Len(masters[m].df.rows) :
                  LET row == masters[m].df.rows[r]
                      n   == row["data_source"][1]
                  IN /\ n \in DOMAIN datasets.df
                     /\ Contributes(datasets, n)
                     /\ \E i \in 1..Len(datasets.df[n].rows) :
                           /\ IdOf(datasets, n, i) = row["participant_id"]
                           /\ \A c \in (DOMAIN row \cap SeqToSet(datasets.df[n].cols))
                                           \ {"data_source"} :
                                 row[c] = datasets.df[n].rows[i][c]
                           /\ \A j \in 1..(i - 1) :
                                 IdOf(datasets, n, j) # row["participant_id"]
                     /\ \A n2 \in DOMAIN datasets.df :
                           (Contributes(datasets, n2) /\ SourcePlace(n2) < SourcePlace(n)) =>
                               \A j \in 1..Len(datasets.df[n2].rows) :
                                   IdOf(datasets, n2, j) # row["participant_id"]
            /\ \A n \in DOMAIN datasets.df :
                  Contributes(datasets, n) =>
                      \A i \in 1..Len(datasets.df[n].rows) :
                          \E r \in 1..Len(masters[m].df.rows) :
                              masters[m].df.rows[r]["participant_id"] = IdOf(datasets, n, i)

\* P1 is twice in the anxiety table and once in the aggression table, and the
\* master table holds the first anxiety row for it
C9_Witness ==
    /\ Len(masters) >= 1
    /\ masters[1] # None
    /\ {"anxiety", "aggression"} \subseteq DOMAIN datasets.df
    /\ Len(datasets.df["anxiety"].rows) = 2
    /\ IdOf(datasets, "anxiety", 1) = <<"P1">>
    /\ IdOf(datasets, "anxiety", 2) = <<"P1">>
    /\ IdOf(datasets, "aggression", 1) = <<"P1">>
    /\ \E r \in 1..Len(masters[1].df.rows) :
          /\ masters[1].df.rows[r]["participant_id"] = <<"P1">>
          /\ masters[1].df.rows[r]["data_source"] = <<"anxiety">>
          /\ masters[1].df.rows[r]["age"] = datasets.df["anxiety"].rows[1]["age"]

\* C10: any two calls of create_master_dataset on the same datasets return
\* master tables with the same rows in the same order (or None both).
C10_SameRowsOnRerun ==
    \A a, b \in 1..Len(masters) :
        /\ masters[a] = None <=> masters[b] = None
        /\ masters[a] # None =>
              /\ Len(masters[a].df.rows) = Len(masters[b].df.rows)
              /\ masters[a].df.rows = masters[b].df.rows

\* two calls under different hash orders returned the same two or more rows
C10_Witness ==
    /\ Len(masters) = 2
    /\ masters[1] # None /\ masters[2] # None
    /\ masters[1].df.cols # masters[2].df.cols
    /\ Len(masters[1].df.rows) >= 2
    /\ masters[1].df.rows = masters[2].df.rows

(***************************************************************************)
(* Preparation stage: respawn_data_cleaning/prepare_clean_data.py          *)
(***************************************************************************)
\* \w of a Python str pattern, on the characters of the vocabulary: a letter, a
\* digit or the underscore
IsWordChar(c) ==
    \/ LowerChar(c) \in {"a", "b", "c", "d", "e", "f", "g", "h", "i", "j", "k", "l", "m",
                         "n", "o", "p", "q", "r", "s", "t", "u", "v", "w", "x", "y", "z"}
    \/ IsDigit(c)
    \/ c = "_"

\* \s
IsSpace(c) == c \in {" ", "\t", "\n", "\r", "\f"}

\* re.sub(r'\s+', ' ', cs): every run of whitespace becomes one space
RECURSIVE CollapseSpaces(_, _)
CollapseSpaces(cs, i) ==
    IF i > Len(cs) THEN <<>>
    ELSE IF IsSpace(cs[i])
         THEN (IF i > 1 /\ IsSpace(cs[i - 1]) THEN <<>> ELSE <<" ">>)
                 \o CollapseSpaces(cs, i + 1)
         ELSE <<cs[i]>> \o CollapseSpaces(cs, i + 1)

\* str.strip()
RECURSIVE strip(_)
strip(cs) ==
    IF cs = <<>> THEN <<>>
    ELSE IF IsSpace(Head(cs)) THEN strip(Tail(cs))
    ELSE IF IsSpace(cs[Len(cs)]) THEN strip(SubSeq(cs, 1, Len(cs) - 1))
    ELSE cs

\* normalize_game_titles on the characters of str(title): lower(), then
\* re.sub(r'[^\w\s]', '', .), then re.sub(r'\s+', ' ', .).strip()
normalize_chars(cs) ==
    LET lowered == Lower(cs)
        kept == FilterSeq(lowered, {c \in SeqToSet(lowered) : IsWordChar(c) \/ IsSpace(c)}, 1)
    IN strip(CollapseSpaces(kept, 1))

\* normalize_game_titles(title), title a cell: "" for NaN and None
normalize_game_titles(title) ==
    IF IsNA(title) THEN <<>> ELSE normalize_chars(Chars(title[1]))

\* df.empty: no rows or no columns
empty(df) == df.rows = <<>> \/ df.cols = <<>>

\* df.drop(col, axis=1)
drop(df, col) ==
    LET cols == FilterSeq(df.cols, SeqToSet(df.cols) \ {col}, 1)
    IN [cols  |-> cols,
        dtype |-> [c \in SeqToSet(cols) |-> df.dtype[c]],
        rows  |-> [i \in 1..Len(df.rows) |-> [c \in SeqToSet(cols) |-> df.rows[i][c]]]]

\* the label the column c of the right table gets in left.merge(right, on=on,
\* suffixes=('', suffix))
RightLabel(left, c, suffix) == IF c \in SeqToSet(left.cols) THEN c \o suffix ELSE c

\* the rows one left row gives in a left join: one per right row with the same
\* key, in the right table's order, and one with NaN on the right when there is
\* none
JoinRow(left, right, on, suffix, lrow, matches) ==
    LET rcols == SeqToSet(right.cols) \ {on}
        labels == SeqToSet(left.cols) \cup {RightLabel(left, c, suffix) : c \in rcols}
        source(l) == CHOOSE c \in rcols : RightLabel(left, c, suffix) = l
        joined(rrow) == [l \in labels |->
                            IF l \in SeqToSet(left.cols) THEN lrow[l] ELSE rrow[source(l)]]
        alone == [l \in labels |-> IF l \in SeqToSet(left.cols) THEN lrow[l] ELSE NA]
    IN IF matches = <<>> THEN <<alone>>
       ELSE [k \in 1..Len(matches) |-> joined(matches[k])]

RECURSIVE JoinRows(_, _, _, _, _)
JoinRows(left, right, on, suffix, i) ==
    IF i > Len(left.rows) THEN <<>>
    ELSE LET matches == SelectRows(right.rows,
                            {k \in 1..Len(right.rows) :
                                right.rows[k][on] = left.rows[i][on]}, 1)
         IN JoinRow(left, right, on, suffix, left.rows[i], matches)
               \o JoinRows(left, right, on, suffix, i + 1)

MergedFrame(left, right, on, suffix, rows) ==
    LET rcols == FilterSeq(right.cols, SeqToSet(right.cols) \ {on}, 1)
        cols == left.cols \o [k \in 1..Len(rcols) |-> RightLabel(left, rcols[k], suffix)]
    IN [cols  |-> cols,
        dtype |-> [l \in SeqToSet(cols) |->
                     IF l \in SeqToSet(left.cols) THEN left.dtype[l]
                     ELSE right.dtype[CHOOSE c \in SeqToSet(rcols) :
                                         RightLabel(left, c, suffix) = l]],
        rows  |-> rows]

\* how='inner': the left rows without a match are left out
merge_how_inner(left, right, on, suffix) ==
    LET matched == [left EXCEPT !.rows = SelectRows(left.rows,
                        {i \in 1..Len(left.rows) :
                            \E k \in 1..Len(right.rows) :
                               right.rows[k][on] = left.rows[i][on]}, 1)]
    IN MergedFrame(left, right, on, suffix, JoinRows(matched, right, on, suffix, 1))

\* left.merge(right, on=on, how='left', suffixes=('', suffix))
merge(left, right, on, suffix) ==
    MergedFrame(left, right, on, suffix, JoinRows(left, right, on, suffix, 1))

\* df[col].apply(normalize_game_titles)
NormalizedTitles(df) ==
    [i \in 1..Len(df.rows) |-> <<normalize_game_titles(df.rows[i]["game_title"])>>]

\* merge_wellbeing_steam(wellbeing_df, steam_df): the value returned, and the two
\* tables as the call leaves them (the concat branch adds data_source in place)
merge_wellbeing_steam(wellbeing, steam) ==
    IF empty(wellbeing) \/ empty(steam)
    THEN [ret |-> IF ~empty(wellbeing) THEN wellbeing ELSE steam,
          wellbeing_df |-> wellbeing, steam_df |-> steam]
    ELSE IF "game_title" \notin SeqToSet(wellbeing.cols)
               \/ "game_title" \notin SeqToSet(steam.cols)
    THEN LET w == AssignScalar(wellbeing, "data_source", <<"wellbeing">>, "object")
             s == AssignScalar(steam, "data_source", <<"steam">>, "object")
         IN [ret |-> concat(<<w, s>>), wellbeing_df |-> w, steam_df |-> s]
    ELSE LET wellbeing_df_copy == AssignSeries(wellbeing, "game_title_normalized",
                                               NormalizedTitles(wellbeing), "object")
             steam_df_copy == AssignSeries(steam, "game_title_normalized",
                                           NormalizedTitles(steam), "object")
         IN [ret |-> drop(merge(wellbeing_df_copy, steam_df_copy,
                                "game_title_normalized", "_steam"),
                          "game_title_normalized"),
             wellbeing_df |-> wellbeing, steam_df |-> steam]

\* load_cleaned_datasets of prepare_clean_data.py, one table: the file read,
\* pd.DataFrame() when it is not found
load_prepared(cleaned_data_path, filename) ==
    IF cleaned_data_path[filename] = Absent THEN EmptyFrame
    ELSE read_csv(cleaned_data_path[filename])

\* main(): load_cleaned_datasets (analyze_datasets only prints)
PrepareLoad ==
    /\ pc = 10
    /\ wellbeing_df' = load_prepared(clean_dir, "video_games_wellbeing_clean.csv")
    /\ steam_df' = load_prepared(clean_dir, "steam_games_clean.csv")
    /\ pc' = 11
    /\ UNCHANGED <<cleaning_vars, merge_vars, merged_df, database_vars, fetch_vars>>

\* main(): merged_df = merge_wellbeing_steam(wellbeing_df, steam_df)
MergeWellbeingSteam ==
    /\ pc = 11
    /\ LET out == merge_wellbeing_steam(wellbeing_df, steam_df) IN
          /\ merged_df' = out.ret
          /\ wellbeing_df' = out.wellbeing_df
          /\ steam_df' = out.steam_df
    /\ pc' = 12
    /\ UNCHANGED <<cleaning_vars, merge_vars, database_vars, fetch_vars>>

NextPrepare ==
    \/ PrepareLoad
    \/ MergeWellbeingSteam

(***************************************************************************)
(* The cleaned tables the preparation is checked on                        *)
(***************************************************************************)
MaxPrepareRows == 2     \* rows of a cleaned table

WellbeingTitles ==
    {NA, <<"Half-Life 2!">>, <<"half life 2">>, <<"Half  Life 2">>, <<" Portal">>,
     <<"portal">>, <<"Doom_3">>}
SteamTitles == {NA, <<"half life 2">>, <<" Portal">>}

\* a cleaned table with one row per title, told apart by the key column
TitledTable(key, ids, measure, titles) ==
    [cols  |-> <<key, "game_title", measure>>,
     dtype |-> (key :> "object") @@ ("game_title" :> "object") @@ (measure :> "number"),
     rows  |-> [j \in 1..Len(titles) |->
                  (key :> <<ids[j]>>) @@ ("game_title" :> titles[j])
                      @@ (measure :> <<10 * j>>)]]

PrepareIdsW == <<"U1", "U2", "U3">>
PrepareIdsS == <<"A1", "A2", "A3">>

WellbeingOptions ==
    {Absent,
     [cols |-> <<"user_id", "hours_played">>,
      dtype |-> ("user_id" :> "object") @@ ("hours_played" :> "number"),
      rows |-> << ("user_id" :> <<"U1">>) @@ ("hours_played" :> <<10>>) >>]}
    \cup {TitledTable("user_id", PrepareIdsW, "hours_played", titles) :
             titles \in {<<>>} \cup SeqsUpTo(WellbeingTitles, MaxPrepareRows)}

SteamOptions ==
    {Absent,
     [cols |-> <<"app_id", "price">>,
      dtype |-> ("app_id" :> "object") @@ ("price" :> "number"),
      rows |-> << ("app_id" :> <<"A1">>) @@ ("price" :> <<10>>) >>]}
    \cup {TitledTable("app_id", PrepareIdsS, "price", titles) :
             titles \in {<<>>} \cup SeqsUpTo(SteamTitles, MaxPrepareRows)}

\* prepare_clean_data.main() started on a cleaned directory
InitPrepare ==
    /\ raw_dir = EmptyDir
    /\ \E w \in WellbeingOptions, s \in SteamOptions :
          clean_dir = ("video_games_wellbeing_clean.csv" :> w)
                          @@ ("steam_games_clean.csv" :> s)
    /\ results = [k \in SeqToSet(Kinds) |-> Pending]
    /\ pc = 10
    /\ MergeIdle
    /\ PrepareIdle
    /\ DatabaseIdle
    /\ FetchIdle

SpecPrepare == InitPrepare /\ [][NextPrepare]_vars

(***************************************************************************)
(* Properties of the preparation stage                                     *)
(***************************************************************************)
\* C30: merge_wellbeing_steam leaves the caller's wellbeing table and
\* storefront table as they were, on every path: either table empty, a
\* game_title column missing, or the title join.
C30_InputsUnchanged ==
    [][MergeWellbeingSteam => (wellbeing_df' = wellbeing_df /\ steam_df' = steam_df)]_vars

\* the titles of the game_title column of a loaded table
TitlesOf(df) ==
    IF "game_title" \in SeqToSet(df.cols)
    THEN {df.rows[i]["game_title"] : i \in 1..Len(df.rows)} \ {NA}
    ELSE {}

\* a title with the letter case, the punctuation and the amount of whitespace
\* taken out of it: lower case, every punctuation character read as a word
\* break, the words one space apart
WordsOf(title) ==
    LET lowered == Lower(Chars(title[1]))
        broken == [i \in 1..Len(lowered) |->
                     IF IsWordChar(lowered[i]) /\ lowered[i] # "_" THEN lowered[i] ELSE " "]
    IN strip(CollapseSpaces(broken, 1))

\* C11: two titles that differ only in letter case, punctuation (a hyphen
\* between words included) and amount of whitespace normalize to the same
\* string, and normalizing a normalized title changes nothing.
C11_TitlesNormalizeAlike ==
    pc = 12 =>
        LET titles == TitlesOf(wellbeing_df) \cup TitlesOf(steam_df) IN
        /\ \A a, b \in titles :
              WordsOf(a) = WordsOf(b) => normalize_game_titles(a) = normalize_game_titles(b)
        /\ \A a \in titles :
              normalize_chars(normalize_game_titles(a)) = normalize_game_titles(a)

\* both tables are non-empty and both have a game_title column
BothTitled ==
    /\ ~empty(wellbeing_df) /\ ~empty(steam_df)
    /\ "game_title" \in SeqToSet(wellbeing_df.cols)
    /\ "game_title" \in SeqToSet(steam_df.cols)

\* the label a storefront column has in the merged table
SteamLabel(c) == IF c \in SeqToSet(wellbeing_df.cols) THEN c \o "_steam" ELSE c

\* the storefront rows with the normalized title of the wellbeing row w
SteamMatches(w) ==
    {k \in 1..Len(steam_df.rows) :
        normalize_game_titles(steam_df.rows[k]["game_title"])
            = normalize_game_titles(w["game_title"])}

\* the result row r is the wellbeing row w, joined with the storefront row k
\* (k = 0: with no storefront row, the storefront columns null)
JoinedFrom(r, w, k) ==
    /\ \A c \in SeqToSet(wellbeing_df.cols) : r[c] = w[c]
    /\ \A c \in SeqToSet(steam_df.cols) :
          r[SteamLabel(c)] = IF k = 0 THEN NA ELSE steam_df.rows[k][c]

\* C12: on two non-empty tables that both have game_title, merge_wellbeing_steam
\* is a left outer join on the normalized title: every wellbeing row is in the
\* result, with null storefront columns when no storefront row has its
\* normalized title, and every result row is a wellbeing row joined with a
\* storefront row of the same normalized title or with none.
C12_LeftOuterJoin ==
    (pc = 12 /\ BothTitled) =>
        /\ SeqToSet(merged_df.cols)
              = SeqToSet(wellbeing_df.cols) \cup {SteamLabel(c) : c \in SeqToSet(steam_df.cols)}
        /\ \A i \in 1..Len(wellbeing_df.rows) :
              LET w == wellbeing_df.rows[i] IN
              \E j \in 1..Len(merged_df.rows) :
                 \E k \in SteamMatches(w) \cup {0} :
                    /\ k = 0 <=> SteamMatches(w) = {}
                    /\ JoinedFrom(merged_df.rows[j], w, k)
        /\ \A j \in 1..Len(merged_df.rows) :
              \E i \in 1..Len(wellbeing_df.rows) :
                 LET w == wellbeing_df.rows[i] IN
                 \E k \in SteamMatches(w) \cup {0} :
                    /\ k = 0 <=> SteamMatches(w) = {}
                    /\ JoinedFrom(merged_df.rows[j], w, k)

\* a merge with a wellbeing row that has no storefront row, one that has, and a
\* storefront row that no wellbeing row matches
C12_Witness ==
    /\ pc = 12 /\ BothTitled
    /\ \E i \in 1..Len(wellbeing_df.rows) : SteamMatches(wellbeing_df.rows[i]) = {}
    /\ \E i \in 1..Len(wellbeing_df.rows) : SteamMatches(wellbeing_df.rows[i]) # {}
    /\ \E k \in 1..Len(steam_df.rows) :
          \A i \in 1..Len(wellbeing_df.rows) : k \notin SteamMatches(wellbeing_df.rows[i])

(***************************************************************************)
(* Relational loader: respawn_database/create_database.py                  *)
(*                                                                         *)
(*   - a table to load is a sequence of rows, a row a function             *)
(*     column -> cell; NaN and None are NA and are stored as SQL NULL;     *)
(*   - the database is [schema, rows, sequence]: whether the tables exist, *)
(*     the rows of each table in rowid order, and each table's             *)
(*     AUTOINCREMENT counter (sqlite_sequence).                            *)
(***************************************************************************)
Tables ==
    <<"games", "wellbeing_data", "anxiety_data", "aggression_data", "prediction_scales",
      "gaming_domains", "analysis_summary">>

\* the INTEGER PRIMARY KEY AUTOINCREMENT column of each table
id_column(table) ==
    CASE table = "games" -> "game_id"
      [] table = "wellbeing_data" -> "wellbeing_id"
      [] table = "anxiety_data" -> "anxiety_id"
      [] table = "aggression_data" -> "aggression_id"
      [] table = "prediction_scales" -> "scale_id"
      [] table = "gaming_domains" -> "domain_id"
      [] table = "analysis_summary" -> "summary_id"

\* the UNIQUE columns and the NOT NULL columns of each table
unique_columns(table) ==
    CASE table = "games" -> {"steam_app_id"}
      [] table = "gaming_domains" -> {"domain_name"}
      [] OTHER -> {}

not_null_columns(table) ==
    CASE table = "games" -> {"game_title"}
      [] table = "gaming_domains" -> {"domain_name"}
      [] table = "analysis_summary" -> {"analysis_type"}
      [] OTHER -> {}

\* the database file before create_database_schema, and after it
NewDatabase ==
    [schema   |-> FALSE,
     rows     |-> [t \in SeqToSet(Tables) |-> <<>>],
     sequence |-> [t \in SeqToSet(Tables) |-> 0]]

create_tables(db) == [db EXCEPT !.schema = TRUE]

\* row.get(col, default)
get(row, col, default) == IF col \in DOMAIN row THEN row[col] ELSE default

\* the parameter tuples the insert methods build from a row, by target column
games_values(row) ==
    [steam_app_id     |-> get(row, "app_id", NA),
     game_title       |-> get(row, "name", get(row, "game_title", <<"Unknown">>)),
     genre            |-> get(row, "genre", get(row, "genres", NA)),
     category         |-> get(row, "category", get(row, "categories", NA)),
     release_date     |-> get(row, "release_date", NA),
     price            |-> get(row, "price", NA),
     positive_reviews |-> get(row, "positive_reviews", NA),
     negative_reviews |-> get(row, "negative_reviews", NA),
     estimated_owners |-> get(row, "estimated_owners", NA),
     metacritic_score |-> get(row, "metacritic_score", NA),
     tags             |-> get(row, "tags", get(row, "popular_tags", NA))]

wellbeing_values(row) ==
    [c \in {"participant_id", "game_title", "hours_played", "wellbeing_score",
            "life_satisfaction", "affect_balance", "autonomy", "competence", "relatedness",
            "intrinsic_motivation", "extrinsic_motivation"} |-> get(row, c, NA)]

anxiety_values(row) ==
    [c \in {"participant_id", "gaming_hours_weekly", "anxiety_score", "gaming_anxiety_level",
            "age_group", "gaming_preference", "age"} |-> get(row, c, NA)]

aggression_values(row) ==
    [c \in {"participant_id", "gaming_hours_daily", "aggression_score", "gaming_preference",
            "competitive_gaming", "age", "gender"} |-> get(row, c, NA)]

scales_values(row) ==
    [c \in {"participant_id", "gaming_addiction_risk", "social_gaming_score",
            "escapism_score", "achievement_score", "immersion_score",
            "skill_development_score", "recreation_score", "total_gaming_hours"} |->
        get(row, c, NA)]

whois_values(row) ==
    [domain_name             |-> get(row, "domain", NA),
     registrar_name          |-> get(row, "registrar_name", NA),
     creation_date           |-> get(row, "creation_date", NA),
     expiration_date         |-> get(row, "expiration_date", NA),
     domain_category         |-> get(row, "is_gaming_platform", NA),
     registrant_country      |-> get(row, "registrant_country", NA),
     registrant_organization |-> get(row, "registrant_organization", NA)]

\* Conflicting with NULL compared like a value
conflicting_null_is_a_value(db, table, values) ==
    {i \in 1..Len(db.rows[table]) :
        \E c \in unique_columns(table) : db.rows[table][i][c] = values[c]}

\* the rows of a table that hold the values' non-null value in a UNIQUE column
Conflicting(db, table, values) ==
    {i \in 1..Len(db.rows[table]) :
        \E c \in unique_columns(table) :
           ~IsNA(values[c]) /\ db.rows[table][i][c] = values[c]}

\* one row stored under the next AUTOINCREMENT id, the rows of replaced gone
Stored(db, table, values, replaced) ==
    LET id == db.sequence[table] + 1 IN
    [db EXCEPT !.rows[table] =
                   Append(SelectRows(@, (1..Len(@)) \ replaced, 1),
                          values @@ (id_column(table) :> <<id>>)),
               !.sequence[table] = id]

\* INSERT into an append-only table: a plain INSERT, so a NOT NULL or UNIQUE
\* violation aborts the statement
insert_plain(db, table, values) ==
    IF ~db.schema \/ (\E c \in not_null_columns(table) : IsNA(values[c]))
          \/ Conflicting(db, table, values) # {}
    THEN [db |-> db, raised |-> TRUE]
    ELSE [db |-> Stored(db, table, values, {}), raised |-> FALSE]

\* INSERT OR IGNORE: a row in conflict on a UNIQUE column is skipped
insert_or_ignore(db, table, values) ==
    IF ~db.schema \/ (\E c \in not_null_columns(table) : IsNA(values[c]))
    THEN [db |-> db, raised |-> TRUE]
    ELSE [db |-> IF Conflicting(db, table, values) # {} THEN db
                 ELSE Stored(db, table, values, {}),
          raised |-> FALSE]

\* INSERT OR REPLACE: the rows in conflict on a UNIQUE column are deleted, then
\* the row is stored; a NULL in a NOT NULL column without default aborts
insert_or_replace(db, table, values) ==
    IF ~db.schema \/ (\E c \in not_null_columns(table) : IsNA(values[c]))
    THEN [db |-> db, raised |-> TRUE]
    ELSE [db |-> Stored(db, table, values, Conflicting(db, table, values)),
          raised |-> FALSE]

\* cursor.execute of one parameter tuple of the table's insert statement
execute(db, table, values) ==
    IF table \in {"games", "gaming_domains"}
    THEN insert_or_replace(db, table, values)
    ELSE insert_plain(db, table, values)

\* cursor.executemany(statement, params) inside the open transaction txn.db.
\* txn.fault counts down to the row at which the database itself raises (disk
\* full, database locked, a value it cannot bind); 0: it never does.  Nothing
\* is executed once txn.raised.
RECURSIVE executemany(_, _, _, _)
executemany(txn, table, params, i) ==
    IF txn.raised THEN txn
    ELSE IF ~txn.db.schema THEN [txn EXCEPT !.raised = TRUE]
    ELSE IF i > Len(params) THEN txn
    ELSE IF txn.fault = 1 THEN [txn EXCEPT !.raised = TRUE, !.fault = 0]
    ELSE LET r == execute(txn.db, table, params[i]) IN
         executemany([db |-> r.db, raised |-> r.raised,
                      fault |-> IF txn.fault = 0 THEN 0 ELSE txn.fault - 1],
                     table, params, i + 1)

\* with sqlite3.connect(db_path) as conn: the transaction the body runs in
begin(db, fault) == [db |-> db, raised |-> FALSE, fault |-> fault]

\* leaving the with block: the transaction is committed (conn.commit(), and
\* Connection.__exit__ without an exception) or rolled back (Connection.__exit__
\* with the exception that is being raised).  The value is the committed
\* database and whether the method raises.
connection_exit_committing(db, txn) == [db |-> txn.db, raised |-> txn.raised]

connection_exit(db, txn) ==
    [db |-> IF txn.raised THEN db ELSE txn.db, raised |-> txn.raised]

\* the rows of a table to load, as parameter tuples
ParamsOf(rows, table) ==
    [i \in 1..Len(rows) |->
        CASE table = "games" -> games_values(rows[i])
          [] table = "wellbeing_data" -> wellbeing_values(rows[i])
          [] table = "anxiety_data" -> anxiety_values(rows[i])
          [] table = "aggression_data" -> aggression_values(rows[i])
          [] table = "prediction_scales" -> scales_values(rows[i])
          [] table = "gaming_domains" -> whois_values(rows[i])]

create_database_schema(db) ==
    LET txn == begin(db, 0) IN
    connection_exit(db, [txn EXCEPT !.db = create_tables(db)])

insert_games_data(db, steam_rows, fault) ==
    connection_exit(db, executemany(begin(db, fault), "games",
                                    ParamsOf(steam_rows, "games"), 1))

\* the rows of gaming_behavior that go to anxiety_data and to aggression_data
AnxietyRows(rows) ==
    SelectRows(rows, {i \in 1..Len(rows) :
                         ~IsNA(get(rows[i], "anxiety_score", NA))
                            \/ ~IsNA(get(rows[i], "gaming_anxiety_level", NA))}, 1)

AggressionRows(rows) ==
    SelectRows(rows, {i \in 1..Len(rows) : ~IsNA(get(rows[i], "aggression_score", NA))}, 1)

insert_mental_health_datasets(db, dsets, fault) ==
    LET t0 == begin(db, fault)
        t1 == IF "mental_health" \in DOMAIN dsets
              THEN executemany(t0, "wellbeing_data",
                               ParamsOf(dsets["mental_health"], "wellbeing_data"), 1)
              ELSE t0
        t2 == IF "gaming_behavior" \in DOMAIN dsets
                    /\ AnxietyRows(dsets["gaming_behavior"]) # <<>>
              THEN executemany(t1, "anxiety_data",
                               ParamsOf(AnxietyRows(dsets["gaming_behavior"]),
                                        "anxiety_data"), 1)
              ELSE t1
        t3 == IF "gaming_behavior" \in DOMAIN dsets
                    /\ AggressionRows(dsets["gaming_behavior"]) # <<>>
              THEN executemany(t2, "aggression_data",
                               ParamsOf(AggressionRows(dsets["gaming_behavior"]),
                                        "aggression_data"), 1)
              ELSE t2
        t4 == IF "prediction_scales" \in DOMAIN dsets
              THEN executemany(t3, "prediction_scales",
                               ParamsOf(dsets["prediction_scales"], "prediction_scales"), 1)
              ELSE t3
    IN connection_exit(db, t4)

insert_whois_data(db, whois_rows, fault) ==
    connection_exit(db, executemany(begin(db, fault), "gaming_domains",
                                    ParamsOf(whois_rows, "gaming_domains"), 1))

\* create_database_summary: SELECT COUNT(*) of six tables; nothing is written,
\* and a missing table raises
create_database_summary(db) ==
    LET txn == begin(db, 0) IN
    connection_exit(db, [txn EXCEPT !.raised = ~db.schema])

\* run_sample_queries: every query is in its own try/except, nothing is written
run_sample_queries(db) == connection_exit(db, begin(db, 0))

\* the dataset names load_merged_datasets looks for (merged, cleaned and raw
\* data folders)
file_mappings ==
    <<"mental_health", "gaming_behavior", "prediction_scales", "steam_games_analysis",
      "master_dataset", "steam_games", "whois_domains">>

\* load_merged_datasets: the files that exist, by dataset name
load_merged_datasets(dir) ==
    [n \in DOMAIN dir \cap SeqToSet(file_mappings) |-> dir[n]]

(***************************************************************************)
(* Loader operations, called one by one and by main()                      *)
(***************************************************************************)
MaxOps == 3      \* loader operations called one by one
MaxRuns == 2     \* runs of create_database.main()

OpsEnded == IF last_op = Pending THEN 0 ELSE last_op.n

\* a loader method has run with the outcome out.  Its connection was opened by
\* "with sqlite3.connect(...) as conn", which commits or rolls back and never
\* closes: the connection is closed when the object is finalized, at the return
\* under reference counting or at a later collection; while the method's
\* exception is alive its traceback keeps the connection.
Ended(op, input, out) ==
    /\ database' = out.db
    /\ last_op' = [n |-> OpsEnded + 1, op |-> op, input |-> input, before |-> database,
                    raised |-> out.raised]
    /\ \/ ~out.raised /\ connections' = connections
       \/ connections' = connections + 1

\* the finalizer of the unreferenced connections runs
CollectGarbage ==
    /\ connections > 0
    /\ connections' = 0
    /\ UNCHANGED <<cleaning_vars, pc, merge_vars, prepare_vars, merged_dir, db_datasets,
                   database, last_op, snapshots, fetch_vars>>

(***************************************************************************)
(* The tables the loader is checked on                                     *)
(***************************************************************************)
\* the database raises at no row, or at the second row an operation inserts
FaultPoints == {0, 2}

GameRow(app, name, price) ==
    [app_id |-> app, name |-> name, genre |-> <<"Action">>, price |-> <<price>>]

GamesTables ==
    { <<GameRow(<<1>>, <<"Portal">>, 10)>>,
      <<GameRow(<<1>>, <<"Portal 2">>, 20)>>,
      <<GameRow(<<1>>, <<"Portal">>, 10), GameRow(<<2>>, <<"Doom">>, 30)>>,
      <<GameRow(<<2>>, <<"Doom">>, 30), GameRow(<<1>>, <<"Portal 2">>, 20)>>,
      <<GameRow(<<1>>, <<"Portal">>, 10), GameRow(<<1>>, <<"Portal 2">>, 20)>>,
      <<GameRow(<<2>>, <<"Doom">>, 30), GameRow(<<1>>, NA, 10)>>,
      <<GameRow(NA, <<"Indie">>, 5), GameRow(<<1>>, <<"Portal">>, 10)>>,
      <<[app_id |-> <<2>>, game_title |-> <<"Doom II">>, genres |-> <<"FPS">>]>> }

WellbeingObservation(id) ==
    [participant_id |-> <<id>>, game_title |-> <<"Portal">>, hours_played |-> <<10>>,
     wellbeing_score |-> <<7>>]
AnxietyObservation(id) ==
    [participant_id |-> <<id>>, gaming_hours_weekly |-> <<14>>, anxiety_score |-> <<5>>,
     aggression_score |-> NA, age |-> <<22>>]
AggressionObservation(id) ==
    [participant_id |-> <<id>>, gaming_hours_daily |-> <<2>>, anxiety_score |-> NA,
     aggression_score |-> <<3>>, age |-> <<30>>]
ScalesObservation(id) ==
    [participant_id |-> <<id>>, gaming_addiction_risk |-> <<4>>, total_gaming_hours |-> <<20>>]

ObservationSets ==
    { ("mental_health" :> <<WellbeingObservation("P1"), WellbeingObservation("P2")>>)
          @@ ("gaming_behavior" :> <<AnxietyObservation("P1"), AggressionObservation("P2")>>)
          @@ ("prediction_scales" :> <<ScalesObservation("P1")>>),
      ("gaming_behavior" :> <<AnxietyObservation("P1"), AnxietyObservation("P2")>>),
      ("mental_health" :> <<WellbeingObservation("P1")>>)
          @@ ("prediction_scales" :> <<ScalesObservation("P1"), ScalesObservation("P2")>>) }

WhoisRow(domain, registrar) ==
    [domain |-> domain, registrar_name |-> <<registrar>>, is_gaming_platform |-> <<"platform">>]

WhoisTables ==
    { <<WhoisRow(<<"steampowered.com">>, "R1")>>,
      <<WhoisRow(<<"steampowered.com">>, "R2"), WhoisRow(<<"twitch.tv">>, "R1")>>,
      <<WhoisRow(<<"twitch.tv">>, "R1"), WhoisRow(NA, "R1")>> }

(***************************************************************************)
(* The loader's methods called one by one, in any order                    *)
(***************************************************************************)
OpIdle == UNCHANGED <<cleaning_vars, pc, merge_vars, prepare_vars, merged_dir, db_datasets,
                      snapshots, fetch_vars>>

OpCreateDatabaseSchema ==
    /\ OpsEnded < MaxOps
    /\ Ended("create_database_schema", <<>>, create_database_schema(database))
    /\ OpIdle

OpInsertGamesData ==
    /\ OpsEnded < MaxOps
    /\ \E steam_rows \in GamesTables, fault \in FaultPoints :
          Ended("insert_games_data", steam_rows,
                insert_games_data(database, steam_rows, fault))
    /\ OpIdle

OpInsertMentalHealthDatasets ==
    /\ OpsEnded < MaxOps
    /\ \E dsets \in ObservationSets, fault \in FaultPoints :
          Ended("insert_mental_health_datasets", dsets,
                insert_mental_health_datasets(database, dsets, fault))
    /\ OpIdle

OpInsertWhoisData ==
    /\ OpsEnded < MaxOps
    /\ \E whois_rows \in WhoisTables, fault \in FaultPoints :
          Ended("insert_whois_data", whois_rows,
                insert_whois_data(database, whois_rows, fault))
    /\ OpIdle

OpCreateDatabaseSummary ==
    /\ OpsEnded < MaxOps
    /\ Ended("create_database_summary", <<>>, create_database_summary(database))
    /\ OpIdle

OpRunSampleQueries ==
    /\ OpsEnded < MaxOps
    /\ Ended("run_sample_queries", <<>>, run_sample_queries(database))
    /\ OpIdle

NextDatabase ==
    \/ OpCreateDatabaseSchema
    \/ OpInsertGamesData
    \/ OpInsertMentalHealthDatasets
    \/ OpInsertWhoisData
    \/ OpCreateDatabaseSummary
    \/ OpRunSampleQueries
    \/ CollectGarbage

InitDatabase ==
    /\ raw_dir = EmptyDir
    /\ clean_dir = [k \in {output_path(Kinds[i]) : i \in 1..Len(Kinds)} |-> Absent]
    /\ results = [k \in SeqToSet(Kinds) |-> Pending]
    /\ pc = 28
    /\ MergeIdle
    /\ PrepareIdle
    /\ merged_dir = <<>>
    /\ db_datasets = Pending
    /\ database = NewDatabase
    /\ connections = 0
    /\ last_op = Pending
    /\ snapshots = <<>>
    /\ FetchIdle

SpecDatabase == InitDatabase /\ [][NextDatabase]_vars

(***************************************************************************)
(* Properties of the loader's methods                                      *)
(***************************************************************************)
\* the last operation was the method op, and it returned (raised: it raised)
LastWas(op, raised) ==
    /\ last_op # Pending
    /\ last_op.op = op
    /\ last_op.raised = raised

\* the rows of a games table to load that carry the app id
RowsWithAppId(steam_rows, app) ==
    {i \in 1..Len(steam_rows) : get(steam_rows[i], "app_id", NA) = app}

AppIdsOf(steam_rows) ==
    {get(steam_rows[i], "app_id", NA) : i \in 1..Len(steam_rows)} \ {NA}

\* the rows of games that hold the app id
GamesWithAppId(db, app) ==
    {j \in 1..Len(db.rows["games"]) : db.rows["games"][j]["steam_app_id"] = app}

\* C13: after insert_games_data has loaded a table, games holds exactly one
\* row for each app id of the table, and that row holds the values of this
\* load (of the table's last row with the app id), whatever an earlier load
\* had stored for the app id.
C13_ReloadReplaces ==
    LastWas("insert_games_data", FALSE) =>
        \A app \in AppIdsOf(last_op.input) :
           LET newest == CHOOSE i \in RowsWithAppId(last_op.input, app) :
                            \A k \in RowsWithAppId(last_op.input, app) : k <= i
               loaded == games_values(last_op.input[newest])
           IN /\ Cardinality(GamesWithAppId(database, app)) = 1
              /\ \A j \in GamesWithAppId(database, app) :
                    \A c \in DOMAIN loaded : database.rows["games"][j][c] = loaded[c]

\* a second load of an app id that games already held with another title
C13_Witness ==
    /\ LastWas("insert_games_data", FALSE)
    /\ \E app \in AppIdsOf(last_op.input) :
          /\ \E j \in GamesWithAppId(last_op.before, app) :
                \A i \in RowsWithAppId(last_op.input, app) :
                   last_op.before.rows["games"][j]["game_title"]
                      # games_values(last_op.input[i])["game_title"]
          /\ Cardinality(GamesWithAppId(database, app)) = 1

\* C16: no connection is open once a loader operation has ended, whether it
\* returned or raised.
C16_NoConnectionOpen == connections = 0

\* C17: an operation that raised has persisted nothing: every table holds the
\* rows it held before the operation started.
C17_FailedLoadPersistsNothing ==
    (last_op # Pending /\ last_op.raised) => database = last_op.before

\* a load that raised at its second row, after the first row had been inserted
C17_Witness ==
    /\ last_op # Pending
    /\ last_op.raised
    /\ last_op.op = "insert_games_data"
    /\ last_op.before.schema
    /\ Len(last_op.input) = 2
    /\ ~IsNA(games_values(last_op.input[1])["game_title"])

(***************************************************************************)
(* create_database.main(), run after run on the same files                 *)
(***************************************************************************)
MainIdle == UNCHANGED <<cleaning_vars, merge_vars, prepare_vars, merged_dir, snapshots,
                        fetch_vars>>

\* where main() goes on after a method: to the next step, or out when the
\* method raised (nothing in main() catches)
GoOn(out, next) == pc' = IF out.raised THEN 27 ELSE next

\* Step 1: db_manager.create_database_schema()
MainCreateDatabaseSchema ==
    /\ pc = 20
    /\ Ended("create_database_schema", <<>>, create_database_schema(database))
    /\ GoOn(create_database_schema(database), 21)
    /\ UNCHANGED db_datasets
    /\ MainIdle

\* Step 2: datasets = db_manager.load_merged_datasets(), and the return when
\* there are none
MainLoadMergedDatasets ==
    /\ pc = 21
    /\ db_datasets' = load_merged_datasets(merged_dir)
    /\ pc' = IF DOMAIN load_merged_datasets(merged_dir) = {} THEN 27 ELSE 22
    /\ UNCHANGED <<database, connections, last_op>>
    /\ MainIdle

\* Step 3: insert_games_data if steam_games was loaded
MainInsertGamesData ==
    /\ pc = 22
    /\ IF "steam_games" \in DOMAIN db_datasets
       THEN /\ Ended("insert_games_data", db_datasets["steam_games"],
                     insert_games_data(database, db_datasets["steam_games"], 0))
            /\ GoOn(insert_games_data(database, db_datasets["steam_games"], 0), 23)
       ELSE /\ pc' = 23
            /\ UNCHANGED <<database, connections, last_op>>
    /\ UNCHANGED db_datasets
    /\ MainIdle

MainInsertMentalHealthDatasets ==
    /\ pc = 23
    /\ Ended("insert_mental_health_datasets", db_datasets,
             insert_mental_health_datasets(database, db_datasets, 0))
    /\ GoOn(insert_mental_health_datasets(database, db_datasets, 0), 24)
    /\ UNCHANGED db_datasets
    /\ MainIdle

\* insert_whois_data if whois_domains was loaded
MainInsertWhoisData ==
    /\ pc = 24
    /\ IF "whois_domains" \in DOMAIN db_datasets
       THEN /\ Ended("insert_whois_data", db_datasets["whois_domains"],
                     insert_whois_data(database, db_datasets["whois_domains"], 0))
            /\ GoOn(insert_whois_data(database, db_datasets["whois_domains"], 0), 25)
       ELSE /\ pc' = 25
            /\ UNCHANGED <<database, connections, last_op>>
    /\ UNCHANGED db_datasets
    /\ MainIdle

\* Step 4: create_database_summary(), run_sample_queries()
MainCreateDatabaseSummary ==
    /\ pc = 25
    /\ Ended("create_database_summary", <<>>, create_database_summary(database))
    /\ GoOn(create_database_summary(database), 26)
    /\ UNCHANGED db_datasets
    /\ MainIdle

MainRunSampleQueries ==
    /\ pc = 26
    /\ Ended("run_sample_queries", <<>>, run_sample_queries(database))
    /\ pc' = 27
    /\ UNCHANGED db_datasets
    /\ MainIdle

\* the run ends (the process exits: its connections are gone), and the script
\* is started again on the same files and the same database file
MainEnds ==
    /\ pc = 27
    /\ snapshots' = Append(snapshots, database)
    /\ pc' = IF Len(snapshots) + 1 < MaxRuns THEN 20 ELSE 29
    /\ db_datasets' = Pending
    /\ connections' = 0
    /\ UNCHANGED <<cleaning_vars, merge_vars, prepare_vars, merged_dir, database, last_op,
                   fetch_vars>>

NextMain ==
    \/ MainCreateDatabaseSchema
    \/ MainLoadMergedDatasets
    \/ MainInsertGamesData
    \/ MainInsertMentalHealthDatasets
    \/ MainInsertWhoisData
    \/ MainCreateDatabaseSummary
    \/ MainRunSampleQueries
    \/ MainEnds
    \/ CollectGarbage

\* the files of the merged, cleaned and raw data folders, by dataset name
MergedDirs ==
    {g @@ o @@ w :
        g \in {<<>>} \cup {("steam_games" :> t) : t \in GamesTables},
        o \in {<<>>} \cup ObservationSets,
        w \in {<<>>} \cup {("whois_domains" :> t) : t \in WhoisTables}}

InitMain ==
    /\ raw_dir = EmptyDir
    /\ clean_dir = [k \in {output_path(Kinds[i]) : i \in 1..Len(Kinds)} |-> Absent]
    /\ results = [k \in SeqToSet(Kinds) |-> Pending]
    /\ pc = 20
    /\ MergeIdle
    /\ PrepareIdle
    /\ merged_dir \in MergedDirs
    /\ db_datasets = Pending
    /\ database = NewDatabase
    /\ connections = 0
    /\ last_op = Pending
    /\ snapshots = <<>>
    /\ FetchIdle

SpecMain == InitMain /\ [][NextMain]_vars

(***************************************************************************)
(* Properties of create_database.main()                                    *)
(***************************************************************************)
\* the rows of a table without their AUTOINCREMENT id
Keyless(db, table) ==
    [j \in 1..Len(db.rows[table]) |->
        [c \in DOMAIN db.rows[table][j] \ {id_column(table)} |-> db.rows[table][j][c]]]

\* C14: after main() has run twice on the same files, games and gaming_domains
\* are as after the first run and every observation table has as many rows as
\* after the first run.
C14_SecondRunChangesNothing ==
    Len(snapshots) >= 2 =>
        /\ \A t \in {"games", "gaming_domains"} :
              Keyless(snapshots[2], t) = Keyless(snapshots[1], t)
        /\ \A t \in {"wellbeing_data", "anxiety_data", "aggression_data",
                     "prediction_scales"} :
              Len(snapshots[2].rows[t]) = Len(snapshots[1].rows[t])

(***************************************************************************)
(* Properties of the analysis views                                        *)
(***************************************************************************)
\* the rows a source table has in a view
ContributionOf(view, dataset_name) ==
    {i \in 1..Len(view.rows) : view.rows[i]["source_dataset"] = <<dataset_name>>}

\* the tables taken into the mental_health view, in the order of the datasets
MentalHealthSources(dsets) ==
    FilterSeq(dsets.keys,
              {n \in SeqToSet(dsets.keys) : IncludedInMentalHealth(dsets.df[n])}, 1)

\* C15: in the mental_health view every other non-empty table's contribution
\* has the row count of the non-empty base table (the first table of the view),
\* whatever its own length.
C15_EnrichmentAlignedToBase ==
    (specialized # Pending /\ "mental_health" \in SeqToSet(specialized.keys)) =>
        LET sources == MentalHealthSources(datasets)
            view == specialized.df["mental_health"]
        IN \A k \in 2..Len(sources) :
              (datasets.df[sources[1]].rows # <<>> /\ datasets.df[sources[k]].rows # <<>>) =>
                  Cardinality(ContributionOf(view, sources[k]))
                     = Len(datasets.df[sources[1]].rows)

(***************************************************************************)
(* The external fetchers (respawn_apis).  The clock now counts seconds.    *)
(* A remote call takes CallDurations seconds and either answers or fails;  *)
(* time.sleep(d) suspends the run for d seconds or, the scheduler being    *)
(* late, for up to SleepOvershoot seconds more.  api_calls is the history  *)
(* of the run's requests, remaining the targets still to be fetched.       *)
(* pc: 30/31 game-metadata fetcher, 40/41 storefront fetcher, 50..52       *)
(* domain-registration fetcher, 39/49/59 run over.                         *)
(***************************************************************************)
rate_limit_delay == 1
MaxTargets == 2
CallDurations == {0, 1}
SleepOvershoot == {0, 1}

FetchersIdle == UNCHANGED <<cleaning_vars, merge_vars, prepare_vars, database_vars>>

\* requests.get(...): the request is sent at `now` and its outcome (answer or
\* any exception, all of them caught by the caller) is known d seconds later.
Request(fetcher, target, d, ok) ==
    /\ api_calls' = Append(api_calls, [fetcher |-> fetcher, target |-> target,
                                       sent |-> now, done |-> now + d, ok |-> ok])
    /\ now' = now + d

sleep(seconds, late) == now' = now + seconds + late

\* RAWGDataFetcher.fetch_game_metadata: _search_game catches every exception
\* of the request, so the loop body always reaches the sleep.
RawgSearchGame ==
    /\ pc = 30 /\ remaining # <<>>
    /\ \E d \in CallDurations, ok \in BOOLEAN : Request("rawg", Head(remaining), d, ok)
    /\ pc' = 31
    /\ UNCHANGED remaining
    /\ FetchersIdle

RawgRateLimit ==
    /\ pc = 31
    /\ \E late \in SleepOvershoot : sleep(rate_limit_delay, late)
    /\ remaining' = Tail(remaining)
    /\ pc' = 30
    /\ UNCHANGED api_calls
    /\ FetchersIdle

RawgFetchComplete ==
    /\ pc = 30 /\ remaining = <<>>
    /\ pc' = 39
    /\ UNCHANGED fetch_vars
    /\ FetchersIdle

\* steam_api_fetch.fetch_and_save_steam_data
SteamFetchGameDetails ==
    /\ pc = 40 /\ remaining # <<>>
    /\ \E d \in CallDurations, ok \in BOOLEAN : Request("steam", Head(remaining), d, ok)
    /\ pc' = 41
    /\ UNCHANGED remaining
    /\ FetchersIdle

SteamBePolite ==
    /\ pc = 41
    /\ \E late \in SleepOvershoot : sleep(1, late)
    /\ remaining' = Tail(remaining)
    /\ pc' = 40
    /\ UNCHANGED api_calls
    /\ FetchersIdle

SteamSave ==
    /\ pc = 40 /\ remaining = <<>>
    /\ pc' = 49
    /\ UNCHANGED fetch_vars
    /\ FetchersIdle

\* who_data_fetch: __main__ runs test_whois_api() and, when it answers,
\* fetch_and_save_whois_data() right after it.
test_domain == 0

TestWhoisApi ==
    /\ pc = 50
    /\ \E d \in CallDurations, ok \in BOOLEAN :
          /\ Request("whois", test_domain, d, ok)
          /\ pc' = IF ok THEN 51 ELSE 59
    /\ UNCHANGED remaining
    /\ FetchersIdle

WhoisFetchData ==
    /\ pc = 51 /\ remaining # <<>>
    /\ \E d \in CallDurations, ok \in BOOLEAN : Request("whois", Head(remaining), d, ok)
    /\ pc' = 52
    /\ UNCHANGED remaining
    /\ FetchersIdle

WhoisBeRespectful ==
    /\ pc = 52
    /\ \E late \in SleepOvershoot : sleep(1, late)
    /\ remaining' = Tail(remaining)
    /\ pc' = 51
    /\ UNCHANGED api_calls
    /\ FetchersIdle

WhoisSave ==
    /\ pc = 51 /\ remaining = <<>>
    /\ pc' = 59
    /\ UNCHANGED fetch_vars
    /\ FetchersIdle

NextFetch ==
    \/ RawgSearchGame
    \/ RawgRateLimit
    \/ RawgFetchComplete
    \/ SteamFetchGameDetails
    \/ SteamBePolite
    \/ SteamSave
    \/ TestWhoisApi
    \/ WhoisFetchData
    \/ WhoisBeRespectful
    \/ WhoisSave

\* The targets of a run: the first n game titles, app ids or domains.
Targets == {[i \in 1..n |-> i] : n \in 0..MaxTargets}

InitFetch ==
    /\ raw_dir = EmptyDir
    /\ clean_dir = [k \in {output_path(Kinds[i]) : i \in 1..Len(Kinds)} |-> Absent]
    /\ results = [k \in SeqToSet(Kinds) |-> Pending]
    /\ pc \in {30, 40, 50}
    /\ MergeIdle
    /\ PrepareIdle
    /\ DatabaseIdle
    /\ now = 0
    /\ api_calls = <<>>
    /\ remaining \in Targets

SpecFetch == InitFetch /\ [][NextFetch]_vars

\* C18: any two consecutive calls of a run to the remote API are at least the
\* minimum delay (one second) apart, whatever the outcome of the earlier call
\* and including the self-test call before the domain-registration batch.
C18_ConsecutiveCallsDelayed ==
    \A k \in 1..(Len(api_calls) - 1) :
        api_calls[k + 1].sent - api_calls[k].done >= rate_limit_delay

(***************************************************************************)
(* Master table: the selected columns                                      *)
(***************************************************************************)
\* the first of gaming_hours_weekly, gaming_hours_daily, hours_played that some
\* table has
FirstHoursColumn(dsets) ==
    LET found == {k \in 1..Len(gaming_hours_cols) : gaming_hours_cols[k] \in all_columns(dsets)}
    IN IF found = {} THEN {}
       ELSE {gaming_hours_cols[CHOOSE k \in found : \A l \in found : k <= l]}

\* the columns at least two tables have
SharedColumns(dsets) == {c \in all_columns(dsets) : column_counts(dsets, c) >= 2}

\* the datasets create_master_dataset selects columns from: those of a run that
\* went past the early return on an empty dictionary
Selecting == pc \in {8, 9} /\ datasets.keys # <<>>

\* the columns of the master tables built so far, data_source apart
MasterColumns ==
    UNION {SeqToSet(masters[m].df.cols) \ {"data_source"} :
              m \in {k \in 1..Len(masters) : masters[k] # None}}

\* C19 as stated: the selected columns are participant_id, age, the first hours
\* column some table has and the columns at least two tables have, and no other
\* column is selected (so that no master table has another column).
C19_SelectedColumnsAsStated ==
    Selecting =>
        LET stated == {"participant_id", "age"} \cup FirstHoursColumn(datasets)
                         \cup SharedColumns(datasets)
        IN /\ \A order \in IterationOrders(datasets) :
                 SeqToSet(selected_columns(datasets, order)) = stated
           /\ MasterColumns \subseteq stated

\* C19: the selected columns are participant_id, age, the first hours column some
\* table has, gaming_preference when some table has it, and the columns at least
\* two tables have; no other column is selected, and no master table has one.
C19_SelectedColumns ==
    Selecting =>
        LET preference == {"gaming_preference"} \cap all_columns(datasets)
            selection == {"participant_id", "age"} \cup FirstHoursColumn(datasets)
                            \cup preference \cup SharedColumns(datasets)
        IN /\ \A order \in IterationOrders(datasets) :
                 SeqToSet(selected_columns(datasets, order)) = selection
           /\ MasterColumns \subseteq selection

\* a master table was built from tables of which one alone has gaming_preference,
\* two have hours columns of different names, two share a column outside the
\* core and one has a column of its own: the master table has the first, the
\* first hours column and the shared one, not the others
C19_Witness ==
    /\ pc = 8 /\ masters # <<>> /\ masters[1] # None
    /\ column_counts(datasets, "gaming_preference") = 1
    /\ column_counts(datasets, "gaming_hours_daily") >= 1
    /\ column_counts(datasets, "hours_played") = 1
    /\ column_counts(datasets, "gender") >= 2
    /\ column_counts(datasets, "wellbeing_score") = 1
    /\ {"gaming_preference", "gaming_hours_daily", "gender"} \subseteq MasterColumns
    /\ MasterColumns \cap {"hours_played", "wellbeing_score"} = {}

(***************************************************************************)
(* Master table: the contributions of the input tables                     *)
(***************************************************************************)


\* the selected columns the dataset n has
SelectedOf(dsets, n) ==
    SeqToSet(dsets.df[n].cols)
        \cap (SeqToSet(core_columns(dsets)) \cup SharedColumns(dsets))

\* the i-th row of dataset n as it enters a master table of the columns labels:
\* its selected columns, its source name, NaN elsewhere
ContributedRow(dsets, n, i, labels) ==
    [c \in labels |->
        IF c = "data_source" THEN <<n>>
        ELSE IF c \in SelectedOf(dsets, n) THEN dsets.df[n].rows[i][c]
        ELSE NA]

\* a row concatenated before the i-th row of dataset n has the same
\* participant_id, so that the closing deduplication of a master table with
\* that column drops the row
Preceded(dsets, n, i) ==
    \/ \E j \in 1..(i - 1) : IdOf(dsets, n, j) = IdOf(dsets, n, i)
    \/ \E n2 \in DOMAIN dsets.df :
          /\ Cardinality(SelectedOf(dsets, n2)) >= 2
          /\ SourcePlace(n2) < SourcePlace(n)
          /\ \E j \in 1..Len(dsets.df[n2].rows) : IdOf(dsets, n2, j) = IdOf(dsets, n, i)

\* the rows of a master table that carry the source name n
RowsFrom(master, n) ==
    {master.rows[r] : r \in {k \in 1..Len(master.rows) : master.rows[k]["data_source"] = <<n>>}}

QuestionsOf(k) ==
    LET raw_df == raw_dir[possible_files(Kinds[k])[1]].df
        keywords == IF k = 1 THEN anxiety_keywords ELSE aggression_keywords
    IN FilterSeq(raw_df.cols, {c \in SeqToSet(raw_df.cols) : MatchesAny(c, keywords)}, 1)

\* the score of the i-th respondent of that file: the scores of the first
\* questions up to the cap, added up (7 and 30 when the file has no question)
CappedScore(k, i) ==
    LET raw_df == raw_dir[possible_files(Kinds[k])[1]].df
        questions == QuestionsOf(k)
        cap == IF k = 1 THEN MaxAnxietyQuestions ELSE MaxAggressionQuestions
        counted == IF Len(questions) < cap THEN Len(questions) ELSE cap
        score(q) == IF k = 1
                    THEN score_likert(raw_df.rows[i][questions[q]], raw_df.dtype[questions[q]])
                    ELSE score_aggression_likert(raw_df.rows[i][questions[q]],
                                                 raw_df.dtype[questions[q]])
    IN IF questions = <<>> THEN (IF k = 1 THEN 7 ELSE 30)
       ELSE SumSeq([q \in 1..counted |-> score(q)])

ScoreColumn(k) == IF k = 1 THEN "anxiety_score" ELSE "aggression_score"

\* C21: in the table cleaned from a real survey file every anxiety_score is
\* within 0..21 and every aggression_score within 0..60, and each is the sum,
\* for some respondent of the file, of the scores of the first 7 (15) question
\* columns at most, however many columns match the keywords.
C21_ScoresCapped ==
    \A k \in SurveyKinds :
        (Called(k) /\ exists(raw_dir, possible_files(Kinds[k])[1])
                   /\ results[Kinds[k]] # None) =>
            \A r \in 1..Len(results[Kinds[k]].df.rows) :
                LET score == results[Kinds[k]].df.rows[r][ScoreColumn(k)] IN
                /\ score # NA
                /\ score[1] >= 0
                /\ score[1] <= (IF k = 1 THEN 21 ELSE 60)
                /\ \E i \in 1..Len(raw_dir[possible_files(Kinds[k])[1]].df.rows) :
                      score[1] = CappedScore(k, i)

\* both many-question files were cleaned: the anxiety file has eight question
\* columns and a respondent answering 'Nearly every day' throughout, who scores
\* 21, the aggression file sixteen and a respondent answering 'Strongly Agree'
\* throughout, who scores 60
C21_Witness ==
    /\ Called(2)
    /\ exists(raw_dir, "gaming_anxiety.csv") /\ exists(raw_dir, "gaming_aggression.csv")
    /\ Len(QuestionsOf(1)) > MaxAnxietyQuestions
    /\ Len(QuestionsOf(2)) > MaxAggressionQuestions
    /\ results["anxiety"] # None /\ results["aggression"] # None
    /\ \E r \in 1..Len(results["anxiety"].df.rows) :
          results["anxiety"].df.rows[r]["anxiety_score"] = <<21>>
    /\ \E r \in 1..Len(results["aggression"].df.rows) :
          results["aggression"].df.rows[r]["aggression_score"] = <<60>>

(***************************************************************************)
(* Cleaning stage: the free-text fields of the anxiety file                *)
(***************************************************************************)
\* the first integer embedded in a free-text cell, the default when the cell is
\* missing or holds no digit
FirstIntOr(cell, default) ==
    IF IsNA(cell) THEN default
    ELSE LET numbers == FirstInt(Chars(cell[1])) IN
         IF numbers = <<>> THEN default ELSE numbers[1]

\* C22: the table cleaned from an anxiety file with the age and the hours
\* column holds, for every respondent whose values are within their domains,
\* the first integer of the age text (22 when there is none) and the first
\* integer of the hours text (2.0 hours when there is none), whatever the
\* other rows of the file hold, and nothing else.
C22_FixedDefaults ==
    (/\ Called(1)
     /\ exists(raw_dir, "gaming_anxiety.csv")
     /\ {age_col, anxiety_hours_col} \subseteq SeqToSet(raw_dir["gaming_anxiety.csv"].df.cols)
     /\ results["anxiety"] # None) =>
        LET raw_df == raw_dir["gaming_anxiety.csv"].df
            age(i) == FirstIntOr(raw_df.rows[i][age_col], 22)
            hours(i) == 10 * FirstIntOr(raw_df.rows[i][anxiety_hours_col], 2)
            valid == {i \in 1..Len(raw_df.rows) :
                         age(i) >= 10 /\ age(i) <= 99 /\ hours(i) >= 0 /\ hours(i) <= 240}
            cleaned == results["anxiety"].df.rows
        IN {<<cleaned[r]["age"], cleaned[r]["gaming_hours_daily"]>> : r \in 1..Len(cleaned)}
              = {<< <<age(i)>>, <<hours(i)>> >> : i \in valid}

\* the scale columns of the 7-scales table and of the wellbeing table, with the
\* ends of their scales
ScaleColumns(kind) ==
    IF kind = "7scales"
    THEN {"openness_score", "conscientiousness_score", "extraversion_score",
          "agreeableness_score", "neuroticism_score", "gaming_addiction_score",
          "social_gaming_score"}
    ELSE {"wellbeing_score", "stress_level", "social_connection_score",
          "achievement_satisfaction"}
ScaleTop(kind) == IF kind = "7scales" THEN 5 ELSE 10

\* C23: every scale score of the cleaned 7-scales table is within 1..5 and
\* every sub-metric of the cleaned wellbeing table within 1..10, whether the
\* table was synthesized or read from a file.
C23_ScalesWithinDomain ==
    \A kind \in {"7scales", "wellbeing"} :
        (results[kind] # Pending /\ results[kind] # None) =>
            LET df == results[kind].df IN
            \A r \in 1..Len(df.rows) :
                \A c \in ScaleColumns(kind) \cap SeqToSet(df.cols) :
                    \/ IsNA(df.rows[r][c])
                    \/ df.rows[r][c][1] >= 1 /\ df.rows[r][c][1] <= ScaleTop(kind)

(***************************************************************************)
(* Properties of the analysis views                                        *)
(***************************************************************************)
\* create_analysis_specific_datasets has returned
ViewsBuilt == pc = 9 /\ specialized # Pending

\* the view has rows of the table `dataset_name`
InView(view, dataset_name) ==
    /\ ViewsBuilt
    /\ view \in SeqToSet(specialized.keys)
    /\ \E r \in 1..Len(specialized.df[view].rows) :
          specialized.df[view].rows[r]["source_dataset"] = <<dataset_name>>

\* the view is the fallback of the except block
Simplified(view) == InView(view, "simplified")

\* the number of columns of the table among the columns selected for it
Usable(df, selected) == Cardinality(SeqToSet(available_columns(df, selected)))

GamingCandidates ==
    FilterSeq(datasets.keys,
              {n \in SeqToSet(datasets.keys) :
                  {"gaming_hours_weekly", "gaming_hours_daily", "hours_played",
                   "gaming_preference"} \cap SeqToSet(datasets.df[n].cols) # {}}, 1)

C29_GamingColumnsOnce ==
    ViewsBuilt =>
        /\ \A n \in SeqToSet(GamingCandidates) :
              LET available_cols == available_columns(datasets.df[n], gaming_cols(datasets.df[n]))
              IN Len(available_cols) = Cardinality(SeqToSet(available_cols))
        /\ "gaming_behavior" \in SeqToSet(specialized.keys) =>
              Len(specialized.df["gaming_behavior"].cols)
                  = Cardinality(SeqToSet(specialized.df["gaming_behavior"].cols))

\* the tables taken for a view, and the columns each contributes
TakenFor(view) ==
    IF view = "gaming_behavior" THEN SeqToSet(GamingCandidates)
    ELSE {n \in SeqToSet(datasets.keys) :
             /\ {"anxiety_score", "wellbeing_score", "aggression_score"}
                   \cap SeqToSet(datasets.df[n].cols) # {}
             /\ Usable(datasets.df[n], mental_health_cols(datasets.df[n])) > 2}
ContributedTo(view, n) ==
    SeqToSet(available_columns(datasets.df[n],
                               IF view = "gaming_behavior" THEN gaming_cols(datasets.df[n])
                               ELSE mental_health_cols(datasets.df[n])))

\* every row of the table has a cell for each of the labels, a null one for a
\* column its source table (named by the row's tag) does not have
UniformRows(df, labels, tag) ==
    /\ SeqToSet(df.cols) = labels
    /\ \A r \in 1..Len(df.rows) :
          /\ DOMAIN df.rows[r] = labels
          /\ \A n \in SeqToSet(datasets.keys) : \A c \in labels \ {tag} :
                (df.rows[r][tag] = <<n>> /\ c \notin SeqToSet(datasets.df[n].cols))
                    => df.rows[r][c] = NA

\* C25: the master table and each analysis view have, in every row, the
\* columns contributed by all the tables taken for it plus the source tag, a
\* column the row's source table lacks being null in that row.
C25_UniformColumns ==
    /\ \A m \in 1..Len(masters) :
          masters[m] # None =>
              UniformRows(masters[m].df,
                          UNION {SelectedOf(datasets, n) :
                                    n \in {k \in SeqToSet(datasets.keys) :
                                              Cardinality(SelectedOf(datasets, k)) >= 2}}
                              \cup {"data_source"},
                          "data_source")
    /\ ViewsBuilt =>
          \A view \in {"mental_health", "gaming_behavior"} \cap SeqToSet(specialized.keys) :
              UniformRows(specialized.df[view],
                          UNION {ContributedTo(view, n) : n \in TakenFor(view)}
                              \cup {"source_dataset"},
                          "source_dataset")

\* C26: the deduplication of a master table drops no row of a table without a
\* participant_id column: all rows of such a contributing table are in the
\* master table.
C26_RowsWithoutIdKept ==
    \A m \in 1..Len(masters) :
        masters[m] # None =>
            \A n \in SeqToSet(datasets.keys) :
                ("participant_id" \notin SeqToSet(datasets.df[n].cols)
                     /\ Cardinality(SelectedOf(datasets, n)) >= 2) =>
                    Len(SelectRows(masters[m].df.rows,
                                   {r \in 1..Len(masters[m].df.rows) :
                                       masters[m].df.rows[r]["data_source"] = <<n>>}, 1))
                        = Len(datasets.df[n].rows)

(***************************************************************************)
(* Loader: games rows without an app id                                    *)
(***************************************************************************)
\* the rows of games whose steam_app_id is NULL
GamesWithoutAppId(db) ==
    {j \in 1..Len(db.rows["games"]) : IsNA(db.rows["games"][j]["steam_app_id"])}

\* C28: a load of insert_games_data replaces no games row without an app id
\* and adds one new row for each row of the loaded table without an app id,
\* so that every load of the same table adds a copy.
C28_RowsWithoutAppIdAccumulate ==
    LastWas("insert_games_data", FALSE) =>
        LET before == last_op.before
            loaded == RowsWithAppId(last_op.input, NA)
            kept == {database.rows["games"][j]["game_id"] : j \in GamesWithoutAppId(database)}
        IN /\ \A j \in GamesWithoutAppId(before) :
                 \E j2 \in GamesWithoutAppId(database) :
                    database.rows["games"][j2] = before.rows["games"][j]
           /\ Cardinality(GamesWithoutAppId(database))
                 = Cardinality(GamesWithoutAppId(before)) + Cardinality(loaded)
           /\ Cardinality(kept) = Cardinality(GamesWithoutAppId(database))
           /\ \A i \in loaded :
                 \E j \in GamesWithoutAppId(database) :
                    /\ database.rows["games"][j]["game_id"][1] > before.sequence["games"]
                    /\ \A c \in DOMAIN games_values(last_op.input[i]) :
                          database.rows["games"][j][c] = games_values(last_op.input[i])[c]

\* the same table with a row without app id has been loaded a second time, and
\* games holds the row twice
C28_Witness ==
    /\ LastWas("insert_games_data", FALSE)
    /\ RowsWithAppId(last_op.input, NA) # {}
    /\ Cardinality(GamesWithoutAppId(last_op.before)) = 1
    /\ Cardinality(GamesWithoutAppId(database)) = 2
    /\ \A j \in GamesWithoutAppId(database) :
          database.rows["games"][j]["game_title"] = <<"Indie">>

(***************************************************************************)
(* The merge script followed by the loader script                          *)
(***************************************************************************)
\* the files merge_gaming_datasets() has written and the loader looks for, by
\* the loader's dataset name, with the rows read_csv returns for each
WrittenFiles ==
    LET view(n) == specialized.df[n].rows
        has(n) == n \in SeqToSet(specialized.keys)
        steam == clean_dir[expected_files[5].filename]
    IN [n \in {k \in {"mental_health", "gaming_behavior", "prediction_scales"} : has(k)}
            |-> view(n)]
          @@ (IF has("steam_games") THEN "steam_games_analysis" :> view("steam_games")
              ELSE <<>>)
          @@ (IF masters[1] # None THEN "master_dataset" :> masters[1].df.rows ELSE <<>>)
          @@ (IF steam # Absent THEN "steam_games" :> steam.rows ELSE <<>>)

\* python create_database.py after the merge script has ended: the database
\* file does not exist yet
RunCreateDatabase ==
    /\ pc = 9
    /\ specialized # Pending
    /\ merged_dir' = WrittenFiles
    /\ database' = NewDatabase
    /\ pc' = 20
    /\ UNCHANGED <<cleaning_vars, merge_vars, prepare_vars, db_datasets, connections,
                   last_op, snapshots, fetch_vars>>

NextPipeline ==
    \/ LoadCleanedDatasets
    \/ StandardizeColumnNames
    \/ CreateMasterDataset
    \/ CreateAnalysisSpecificDatasets
    \/ RunCreateDatabase
    \/ MainCreateDatabaseSchema
    \/ MainLoadMergedDatasets
    \/ MainInsertGamesData
    \/ MainInsertMentalHealthDatasets
    \/ MainInsertWhoisData
    \/ MainCreateDatabaseSummary
    \/ MainRunSampleQueries
    \/ MainEnds
    \/ CollectGarbage

SpecPipeline == InitViews /\ [][NextPipeline]_vars

\* the rows of the reconciled table of a kind with a score, 0 without the table
Scored(kind, score) ==
    IF results[kind] = None \/ score \notin SeqToSet(results[kind].df.cols) THEN 0
    ELSE Cardinality({i \in 1..Len(results[kind].df.rows) :
                         ~IsNA(results[kind].df.rows[i][score])})

\* C27: after the merge and the first load, anxiety_data holds as many rows as
\* the reconciled anxiety table has rows with an anxiety_score, and
\* aggression_data as many as the reconciled aggression table has rows with an
\* aggression_score.
C27_ScoresLoaded ==
    (snapshots # <<>> /\ specialized # Pending) =>
        /\ Len(snapshots[1].rows["anxiety_data"]) = Scored("anxiety", "anxiety_score")
        /\ Len(snapshots[1].rows["aggression_data"]) = Scored("aggression", "aggression_score")
====
